---- MODULE Spec2Model ----
(***************************************************************************)
(* A model of the Gherkin parser of behave (src/behave/parser.py).         *)
(*                                                                         *)
(* The parser is a line-driven state machine.  The model feeds it one      *)
(* input line per step, chosen from the finite set Lines, and keeps the    *)
(* fields of the Parser object as variables.  A handler of the parser is   *)
(* an operator from the parser fields (a record p) and the line to the     *)
(* parser fields after the call; the actions of the specification apply    *)
(* Parser.action to the variables, one action per state handler.           *)
(*                                                                         *)
(* The AST is kept along the open path only: the Feature, the current      *)
(* Rule, the current Scenario/ScenarioOutline and the Background of each   *)
(* open container are records with their fields; the lists of children of  *)
(* a container (scenarios, rules) and the description lists hold the line  *)
(* numbers of their elements.  The parser never reads a closed statement   *)
(* again.                                                                  *)
(*                                                                         *)
(* The step registry (src/behave/step_registry.py) is modelled the same    *)
(* way, with a specification of its own (RegistrySpec).                    *)
(***************************************************************************)
EXTENDS Integers, Sequences, FiniteSets, TLC

\* Longest input, in lines after the preamble (see Preambles).
MaxLines == 3

----------------------------------------------------------------------------
\* Input lines (already stripped of surrounding blanks).

FeatureLines  == {"Feature: A", "Feature: B"}
FunktionLines == {"Funktion: A"}
RuleLines     == {"Rule: R"}
BackgroundLines == {"Background: B"}
ScenarioLines == {"Scenario: S"}
OutlineLines  == {"Scenario Outline: O"}
ExamplesLines == {"Examples: E"}
TagLines      == {"@b @a"}
BadTagLines   == {"@a b"}
StepLines     == {"Given g", "When a", "And b", "But c", "* s"}
RowLines      == {"| n |", "| 1 | 2 |"}
FenceLines    == {"\"\"\"", "  \"\"\""}
TextLines     == {"free text"}
CommentLines  == {"# comment", "# language: de", "# language: xx"}
BlankLines    == {""}
\* Lines met inside a doc-string only: indented text, the other fence.
DocLines      == {"  hello ", "   world", "'''"}
\* Lines met at the start of a text only (see Preambles): a step whose name
\* ends in colons, tag lines with a trailing comment.
ColonStepLines  == {"Then t::"}
TagCommentLines == {"@a @b  @c  # comment", "@a @a # @b c"}

Lines ==
  FeatureLines \cup FunktionLines \cup RuleLines \cup BackgroundLines \cup ScenarioLines
  \cup OutlineLines \cup ExamplesLines \cup TagLines \cup BadTagLines
  \cup StepLines \cup RowLines \cup FenceLines \cup TextLines
  \cup CommentLines \cup BlankLines

\* line.strip().startswith(prefix) on the input lines above.
StartsWith(l, prefix) ==
  CASE prefix = "@"    -> l \in TagLines \cup BadTagLines \cup TagCommentLines
    [] prefix = "#"    -> l \in CommentLines
    [] prefix = "|"    -> l \in RowLines
    [] prefix = "\"\"\"" -> l \in FenceLines
    [] prefix = "'''"  -> l = "'''"
    [] prefix = "Feature:"    -> l \in FeatureLines
    [] prefix = "Funktion:"   -> l \in FunktionLines
    [] prefix = "Rule:"       -> l \in RuleLines
    [] prefix = "Background:" -> l \in BackgroundLines
    [] prefix = "Scenario:"   -> l \in ScenarioLines
    [] prefix = "Scenario Outline:" -> l \in OutlineLines
    [] prefix = "Examples:"   -> l \in ExamplesLines
    [] prefix = "Given " -> l = "Given g"
    [] prefix = "When "  -> l = "When a"
    [] prefix = "Then "  -> l \in {"Then t", "Then t::"}
    [] prefix = "And "   -> l = "And b"
    [] prefix = "But "   -> l = "But c"
    [] prefix = "* "     -> l = "* s"
    [] prefix = "*"      -> l \in {"* s", "* "}
    [] OTHER -> FALSE

\* line[len(kw):].strip() for a step line and its keyword.
TextAfterKeyword(l) ==
  CASE l = "Given g" -> "g" [] l = "When a" -> "a" [] l = "Then t" -> "t"
    [] l = "Then t::" -> "t::"
    [] l = "And b" -> "b" [] l = "But c" -> "c" [] l = "* s" -> "s"
    [] OTHER -> ""

\* i18n.languages: the keyword tables, here of English and of German.
languages ==
  [ en |->
      [ feature   |-> <<"Feature">>,
        rule      |-> <<"Rule">>,
        background |-> <<"Background">>,
        scenario  |-> <<"Scenario">>,
        scenario_outline |-> <<"Scenario Outline">>,
        examples  |-> <<"Examples">>,
        given     |-> <<"* ", "Given ">>,
        when      |-> <<"* ", "When ">>,
        then      |-> <<"* ", "Then ">>,
        and       |-> <<"* ", "And ">>,
        but       |-> <<"* ", "But ">> ],
    de |->
      [ feature   |-> <<"Funktion">>,
        rule      |-> <<"Regel">>,
        background |-> <<"Grundlage">>,
        scenario  |-> <<"Szenario">>,
        scenario_outline |-> <<"Szenariogrundriss">>,
        examples  |-> <<"Beispiele">>,
        given     |-> <<"* ", "Angenommen ">>,
        when      |-> <<"* ", "Wenn ">>,
        then      |-> <<"* ", "Dann ">>,
        and       |-> <<"* ", "Und ">>,
        but       |-> <<"* ", "Aber ">> ] ]

\* self.keywords, the keyword table of the active language.
keywords(p) == languages[p.language]

\* alias + ":"
WithColon(alias) ==
  CASE alias = "Feature" -> "Feature:"
    [] alias = "Funktion" -> "Funktion:"
    [] alias = "Rule" -> "Rule:"
    [] alias = "Background" -> "Background:"
    [] alias = "Scenario" -> "Scenario:"
    [] alias = "Scenario Outline" -> "Scenario Outline:"
    [] alias = "Examples" -> "Examples:"
    [] OTHER -> "?"

None == "None"

\* Parser.match_keyword: the first alias of the keyword the line starts with.
match_keyword(p, keyword, l) ==
  LET aliases == keywords(p)[keyword]
      hits == {i \in 1..Len(aliases) : StartsWith(l, WithColon(aliases[i]))}
  IN IF hits = {} THEN None
     ELSE aliases[CHOOSE i \in hits : \A j \in hits : i <= j]

----------------------------------------------------------------------------
\* The nodes of the AST (behave.model), as records.  type = None: no object.

NoTable == [type |-> None, line |-> 0, headings |-> <<>>, rows |-> <<>>]

NoText == [type |-> None, line |-> 0, value |-> ""]

NoBackground ==
  [type |-> None, line |-> 0, description |-> <<>>, steps |-> <<>>]

\* A Feature or a Rule (the scenario containers).
NoContainer ==
  [type |-> None, line |-> 0, tags |-> <<>>, description |-> <<>>,
   background |-> NoBackground, scenarios |-> <<>>, rules |-> <<>>]

\* A Scenario or a ScenarioOutline.
NoScenario ==
  [type |-> None, line |-> 0, tags |-> <<>>, description |-> <<>>,
   steps |-> <<>>, examples |-> <<>>]

Tag(name, line) == [name |-> name, line |-> line]

Step(line, keyword, step_type, name) ==
  [line |-> line, keyword |-> keyword, step_type |-> step_type, name |-> name,
   text |-> NoText, table |-> NoTable]

\* Feature.add_rule: the rule joins the feature's rules; a rule of a feature
\* with a background starts with a default background that has no steps of
\* its own.
add_rule(feature, rule) ==
  [feature EXCEPT !.rules = Append(@, rule.line)]

default_background(feature, rule) ==
  IF feature.background.type = None THEN NoBackground
  ELSE [type |-> "Background", line |-> rule.line, description |-> <<>>,
        steps |-> <<>>]

\* container.add_background / container.add_scenario
add_background(container, background) ==
  [container EXCEPT !.background = background]

add_scenario(container, scenario) ==
  [container EXCEPT !.scenarios = Append(@, scenario.line)]

----------------------------------------------------------------------------
\* The fields of the Parser object, as a record p.  status, error and ret are
\* the control outcome of a call: status = "error" once an exception was
\* raised (error says which), ret is the handler's return value.

NoError == [exc |-> None, message |-> None, reason |-> None, line |-> 0]

Container(p) ==
  CASE p.scenario_container = "Feature" -> p.feature
    [] p.scenario_container = "Rule" -> p.rule
    [] OTHER -> NoContainer

SetContainer(p, c) ==
  CASE p.scenario_container = "Feature" -> [p EXCEPT !.feature = c]
    [] p.scenario_container = "Rule" -> [p EXCEPT !.rule = c]
    [] OTHER -> p

\* Background.inherited_steps: the steps of the parent feature's background,
\* for the background of a rule.
inherited_steps(p) ==
  IF p.scenario_container = "Rule" THEN p.feature.background.steps ELSE <<>>

\* raise exc(message) from a handler
Raise(p, exc, message) ==
  [p EXCEPT !.status = "error", !.ret = FALSE,
            !.error = [exc |-> exc, message |-> message, reason |-> None,
                       line |-> p.line]]

Return(p, value) == [p EXCEPT !.ret = value]

Failed(p) == p.status = "error"

\* self.statement.steps (AttributeError when the statement has no steps)
HasSteps(p) == p.statement \in {"Background", "Scenario", "ScenarioOutline"}

StatementSteps(p) ==
  CASE p.statement = "Background" -> Container(p).background.steps
    [] p.statement \in {"Scenario", "ScenarioOutline"} -> p.scenario.steps
    [] OTHER -> <<>>

SetStatementSteps(p, steps) ==
  CASE p.statement = "Background" ->
         SetContainer(p, [Container(p) EXCEPT !.background.steps = steps])
    [] p.statement \in {"Scenario", "ScenarioOutline"} ->
         [p EXCEPT !.scenario.steps = steps]
    [] OTHER -> p

\* self.statement.description.append(line)
AppendStatementDescription(p) ==
  CASE p.statement = "Background" ->
         SetContainer(p, [Container(p) EXCEPT
                            !.background.description = Append(@, p.line)])
    [] p.statement \in {"Scenario", "ScenarioOutline"} ->
         [p EXCEPT !.scenario.description = Append(@, p.line)]
    [] p.statement = "Rule" ->
         [p EXCEPT !.rule.description = Append(@, p.line)]
    [] OTHER -> Raise(p, "AttributeError", "description")

----------------------------------------------------------------------------
\* The builders of the AST nodes.

_build_feature(p, keyword, l) ==
  [p EXCEPT !.feature = [NoContainer EXCEPT !.type = "Feature",
                                            !.line = p.line,
                                            !.tags = p.tags],
            !.scenario_container = "Feature",
            !.rule = NoContainer,
            !.tags = <<>>]

\* _build_rule_statement without "self.scenario_container = rule".
_build_rule_statement_container_kept(p, keyword, l) ==
  LET rule == [NoContainer EXCEPT !.type = "Rule", !.line = p.line,
                                  !.tags = p.tags]
  IN [p EXCEPT !.rule = IF p.feature.type # None
                        THEN [rule EXCEPT !.background =
                                default_background(p.feature, rule)]
                        ELSE rule,
               !.statement = "Rule",
               !.feature = IF p.feature.type # None
                           THEN add_rule(p.feature, rule) ELSE @,
               !.tags = <<>>]

_build_rule_statement(p, keyword, l) ==
  LET rule == [NoContainer EXCEPT !.type = "Rule", !.line = p.line,
                                  !.tags = p.tags]
  IN [p EXCEPT !.rule = IF p.feature.type # None
                        THEN [rule EXCEPT !.background =
                                default_background(p.feature, rule)]
                        ELSE rule,
               !.scenario_container = "Rule",
               !.statement = "Rule",
               !.feature = IF p.feature.type # None
                           THEN add_rule(p.feature, rule) ELSE @,
               !.tags = <<>>]

_build_background_statement(p, keyword, l) ==
  IF p.tags # <<>>
  THEN Raise(p, "ParserError", "Background supports no tags")
  ELSE IF /\ p.scenario_container # None
          /\ Container(p).background.type # None
          /\ Container(p).background.steps # <<>>
  THEN Raise(p, "ParserError", "Second Background (can have only one)")
  ELSE IF p.scenario_container = None
  THEN Raise(p, "AttributeError", "add_background")
  ELSE LET background == [NoBackground EXCEPT !.type = "Background",
                                              !.line = p.line]
       IN [SetContainer(p, add_background(Container(p), background))
             EXCEPT !.statement = "Background"]

\* _build_scenario_statement without "self.tags = []".
_build_scenario_statement_tags_kept(p, keyword, l) ==
  LET scenario == [NoScenario EXCEPT !.type = "Scenario", !.line = p.line,
                                     !.tags = p.tags]
      q == [p EXCEPT !.scenario = scenario, !.statement = "Scenario"]
  IN IF p.scenario_container # None
     THEN SetContainer(q, add_scenario(Container(q), scenario))
     ELSE q

_build_scenario_statement(p, keyword, l) ==
  LET scenario == [NoScenario EXCEPT !.type = "Scenario", !.line = p.line,
                                     !.tags = p.tags]
      q == [p EXCEPT !.scenario = scenario, !.statement = "Scenario"]
  IN [(IF p.scenario_container # None
       THEN SetContainer(q, add_scenario(Container(q), scenario))
       ELSE q) EXCEPT !.tags = <<>>]

_build_scenario_outline_statement(p, keyword, l) ==
  LET template == [NoScenario EXCEPT !.type = "ScenarioOutline",
                                     !.line = p.line, !.tags = p.tags]
      q == [p EXCEPT !.scenario = template, !.statement = "ScenarioOutline"]
  IN IF p.scenario_container = None
     THEN Raise(q, "AttributeError", "add_scenario")
     ELSE [SetContainer(q, add_scenario(Container(q), template))
             EXCEPT !.tags = <<>>]

\* _build_examples with "examples = [self.examples]" for the append.
_build_examples_replacing(p, keyword, l) ==
  IF p.statement # "ScenarioOutline"
  THEN Raise(p, "ParserError",
             "Examples must only appear inside scenario outline")
  ELSE [p EXCEPT !.examples = "Examples",
                 !.scenario.examples =
                    <<[line |-> p.line, tags |-> p.tags, table |-> NoTable]>>,
                 !.tags = <<>>]

\* _build_examples without the test of the statement.
_build_examples_anywhere(p, keyword, l) ==
  [p EXCEPT !.examples = "Examples",
            !.scenario.examples =
               Append(@, [line |-> p.line, tags |-> p.tags,
                          table |-> NoTable]),
            !.tags = <<>>]

_build_examples(p, keyword, l) ==
  IF p.statement # "ScenarioOutline"
  THEN Raise(p, "ParserError",
             "Examples must only appear inside scenario outline")
  ELSE [p EXCEPT !.examples = "Examples",
                 !.scenario.examples =
                    Append(@, [line |-> p.line, tags |-> p.tags,
                               table |-> NoTable]),
                 !.tags = <<>>]

----------------------------------------------------------------------------
\* Tags and steps.

\* line.split() of a tag line
Words(l) ==
  CASE l = "@a" -> <<"@a">>
    [] l = "@b @a" -> <<"@b", "@a">>
    [] l = "@a b" -> <<"@a", "b">>
    [] l = "@a @b  @c  # comment" -> <<"@a", "@b", "@c", "#", "comment">>
    [] l = "@a @a # @b c" -> <<"@a", "@a", "#", "@b", "c">>
    [] OTHER -> <<>>

\* word.startswith(c) and word[1:] for the words above
WordStartsWith(w, c) ==
  CASE c = "@" -> w \in {"@a", "@b", "@c"}
    [] c = "#" -> w = "#"
    [] OTHER -> FALSE

WordTail(w) ==
  CASE w = "@a" -> "a" [] w = "@b" -> "b" [] w = "@c" -> "c" [] OTHER -> w

\* The loop of Parser.parse_tags over the words from position i on:
\* [tags, bad], bad = TRUE when a word that is neither a tag nor a comment is
\* met.
\* TagsFrom going on with the words after a comment sign.
RECURSIVE TagsFrom_past_comment(_, _, _, _)
TagsFrom_past_comment(words, i, line, acc) ==
  IF i > Len(words) THEN [tags |-> acc, bad |-> FALSE]
  ELSE IF WordStartsWith(words[i], "@")
  THEN TagsFrom_past_comment(words, i + 1, line,
                             Append(acc, Tag(WordTail(words[i]), line)))
  ELSE IF WordStartsWith(words[i], "#")
  THEN TagsFrom_past_comment(words, i + 1, line, acc)
  ELSE [tags |-> acc, bad |-> TRUE]

RECURSIVE TagsFrom(_, _, _, _)
TagsFrom(words, i, line, acc) ==
  IF i > Len(words) THEN [tags |-> acc, bad |-> FALSE]
  ELSE IF WordStartsWith(words[i], "@")
  THEN TagsFrom(words, i + 1, line, Append(acc, Tag(WordTail(words[i]), line)))
  ELSE IF WordStartsWith(words[i], "#")
  THEN [tags |-> acc, bad |-> FALSE]
  ELSE [tags |-> acc, bad |-> TRUE]

\* Parser.parse_tags, as used by the handlers: self.tags.extend(parse_tags(line)).
\* For a line without @ the ParserError is made without its line argument,
\* which raises TypeError.
extend_tags(p, l) ==
  LET r == TagsFrom(Words(l), 1, p.line, <<>>)
  IN IF ~StartsWith(l, "@") THEN Raise(p, "TypeError", "BAD_TAG-LINE")
     ELSE IF r.bad THEN Raise(p, "ParserError", "tag")
     ELSE [p EXCEPT !.tags = @ \o r.tags]

StepTypes == <<"given", "when", "then", "and", "but">>

\* kw.rstrip()
RStrip(kw) ==
  CASE kw = "Given " -> "Given" [] kw = "When " -> "When"
    [] kw = "Then " -> "Then" [] kw = "And " -> "And"
    [] kw = "But " -> "But" [] kw = "* " -> "*"
    [] OTHER -> kw

\* The first (step_type, keyword) of the nested loops of parse_step that the
\* line starts with: <<i, j>> indexes StepTypes and keywords[StepTypes[i]].
StepMatches(p, l) ==
  {ij \in (1..Len(StepTypes)) \X (1..2) :
     /\ ij[2] <= Len(keywords(p)[StepTypes[ij[1]]])
     /\ StartsWith(l, keywords(p)[StepTypes[ij[1]]][ij[2]])}

FirstStepMatch(p, l) ==
  CHOOSE ij \in StepMatches(p, l) :
    \A kl \in StepMatches(p, l) :
      ij[1] < kl[1] \/ (ij[1] = kl[1] /\ ij[2] <= kl[2])

NoStep == Step(0, None, None, None)

\* Parser._select_last_background_step_type
_select_last_background_step_type(p) ==
  IF p.scenario_container # None /\ Container(p).background.type # None
  THEN LET this_background == Container(p).background
           this_background_steps ==
             IF this_background.steps # <<>> THEN this_background.steps
             ELSE inherited_steps(p)
       IN IF this_background_steps # <<>>
          THEN this_background_steps[Len(this_background_steps)].step_type
          ELSE None
  ELSE None

\* MatchedStep leaving And/But with their own type.
MatchedStep_unresolved(p, l, step_type, kw) ==
  IF StartsWith(kw, "*") /\ p.last_step_type # None
  THEN [p |-> p,
        step |-> Step(p.line, RStrip(kw), p.last_step_type,
                      TextAfterKeyword(l))]
  ELSE IF step_type \in {"and", "but"}
  THEN IF p.last_step_type = None
          /\ _select_last_background_step_type(p) = None
       THEN [p |-> Raise(p, "ParserError",
                         "STEP REQUIRES: An previous Given/When/Then step."),
             step |-> NoStep]
       ELSE [p |-> p,
             step |-> Step(p.line, RStrip(kw), step_type,
                           TextAfterKeyword(l))]
  ELSE [p |-> [p EXCEPT !.last_step_type = step_type],
        step |-> Step(p.line, RStrip(kw), step_type, TextAfterKeyword(l))]

\* MatchedStep without the case of the * alias.
MatchedStep_bullet_plain(p, l, step_type, kw) ==
  IF step_type \in {"and", "but"}
  THEN IF p.last_step_type # None
       THEN [p |-> p,
             step |-> Step(p.line, RStrip(kw), p.last_step_type,
                           TextAfterKeyword(l))]
       ELSE IF _select_last_background_step_type(p) = None
       THEN [p |-> Raise(p, "ParserError",
                         "STEP REQUIRES: An previous Given/When/Then step."),
             step |-> NoStep]
       ELSE [p |-> [p EXCEPT !.last_step_type =
                               _select_last_background_step_type(p)],
             step |-> Step(p.line, RStrip(kw),
                           _select_last_background_step_type(p),
                           TextAfterKeyword(l))]
  ELSE [p |-> [p EXCEPT !.last_step_type = step_type],
        step |-> Step(p.line, RStrip(kw), step_type, TextAfterKeyword(l))]

\* MatchedStep asking the Background before last_step_type for And/But.
MatchedStep_background_first(p, l, step_type, kw) ==
  IF StartsWith(kw, "*") /\ p.last_step_type # None
  THEN [p |-> p,
        step |-> Step(p.line, RStrip(kw), p.last_step_type,
                      TextAfterKeyword(l))]
  ELSE IF step_type \in {"and", "but"}
  THEN IF _select_last_background_step_type(p) # None
       THEN [p |-> [p EXCEPT !.last_step_type =
                               _select_last_background_step_type(p)],
             step |-> Step(p.line, RStrip(kw),
                           _select_last_background_step_type(p),
                           TextAfterKeyword(l))]
       ELSE IF p.last_step_type = None
       THEN [p |-> Raise(p, "ParserError",
                         "STEP REQUIRES: An previous Given/When/Then step."),
             step |-> NoStep]
       ELSE [p |-> p,
             step |-> Step(p.line, RStrip(kw), p.last_step_type,
                           TextAfterKeyword(l))]
  ELSE [p |-> [p EXCEPT !.last_step_type = step_type],
        step |-> Step(p.line, RStrip(kw), step_type, TextAfterKeyword(l))]

\* The body of the loops of parse_step for the first keyword kw, of type
\* step_type, that the line starts with: [p, step].
MatchedStep(p, l, step_type, kw) ==
  IF StartsWith(kw, "*") /\ p.last_step_type # None
  THEN [p |-> p,
        step |-> Step(p.line, RStrip(kw), p.last_step_type,
                      TextAfterKeyword(l))]
  ELSE IF step_type \in {"and", "but"}
  THEN IF p.last_step_type # None
       THEN [p |-> p,
             step |-> Step(p.line, RStrip(kw), p.last_step_type,
                           TextAfterKeyword(l))]
       ELSE IF _select_last_background_step_type(p) = None
       THEN [p |-> Raise(p, "ParserError",
                         "STEP REQUIRES: An previous Given/When/Then step."),
             step |-> NoStep]
       ELSE [p |-> [p EXCEPT !.last_step_type =
                               _select_last_background_step_type(p)],
             step |-> Step(p.line, RStrip(kw),
                           _select_last_background_step_type(p),
                           TextAfterKeyword(l))]
  ELSE [p |-> [p EXCEPT !.last_step_type = step_type],
        step |-> Step(p.line, RStrip(kw), step_type, TextAfterKeyword(l))]

\* Parser.parse_step: [p, step]; step = NoStep when the line is no step.
parse_step(p, l) ==
  IF StepMatches(p, l) = {} THEN [p |-> p, step |-> NoStep]
  ELSE MatchedStep(p, l, StepTypes[FirstStepMatch(p, l)[1]],
                   keywords(p)[StepTypes[FirstStepMatch(p, l)[1]]]
                              [FirstStepMatch(p, l)[2]])

----------------------------------------------------------------------------
\* The state handlers.  Each returns the parser fields after the call, with
\* ret the handler's return value.

\* A builder followed by the state change of its caller.
Then(q, state) ==
  IF Failed(q) THEN q ELSE Return([q EXCEPT !.state = state], TRUE)

\* "if sub(...): return True", then the rest of the handler.
Unless(q, rest) == IF Failed(q) \/ q.ret THEN q ELSE rest

\* A call that may raise, then "return True".
Done(q) == IF Failed(q) THEN q ELSE Return(q, TRUE)

\* subaction_detect_taggable_statement without the change of state on a
\* tag line.
subaction_detect_taggable_statement_state_kept(p, l) ==
  IF StartsWith(l, "@")
  THEN Done(extend_tags(p, l))
  ELSE IF match_keyword(p, "rule", l) # None
  THEN Then(_build_rule_statement(p, match_keyword(p, "rule", l), l), "RULE")
  ELSE IF match_keyword(p, "scenario", l) # None
  THEN Then(_build_scenario_statement(p, match_keyword(p, "scenario", l), l),
            "SCENARIO")
  ELSE IF match_keyword(p, "scenario_outline", l) # None
  THEN Then(_build_scenario_outline_statement(
              p, match_keyword(p, "scenario_outline", l), l), "SCENARIO")
  ELSE IF match_keyword(p, "examples", l) # None
  THEN Then(_build_examples(p, match_keyword(p, "examples", l), l), "TABLE")
  ELSE Return(p, FALSE)

subaction_detect_taggable_statement(p, l) ==
  IF StartsWith(l, "@")
  THEN Then(extend_tags(p, l), "TAGGABLE_STATEMENT")
  ELSE IF match_keyword(p, "rule", l) # None
  THEN Then(_build_rule_statement(p, match_keyword(p, "rule", l), l), "RULE")
  ELSE IF match_keyword(p, "scenario", l) # None
  THEN Then(_build_scenario_statement(p, match_keyword(p, "scenario", l), l),
            "SCENARIO")
  ELSE IF match_keyword(p, "scenario_outline", l) # None
  THEN Then(_build_scenario_outline_statement(
              p, match_keyword(p, "scenario_outline", l), l), "SCENARIO")
  ELSE IF match_keyword(p, "examples", l) # None
  THEN Then(_build_examples(p, match_keyword(p, "examples", l), l), "TABLE")
  ELSE Return(p, FALSE)

\* action_initial with the fall-through of the other handlers.
action_initial_taggable(p, l) ==
  IF StartsWith(l, "@")
  THEN Done(extend_tags(p, l))
  ELSE IF match_keyword(p, "feature", l) # None
  THEN Then(_build_feature(p, match_keyword(p, "feature", l), l), "FEATURE")
  ELSE subaction_detect_taggable_statement(p, l)

action_initial(p, l) ==
  IF StartsWith(l, "@")
  THEN Done(extend_tags(p, l))
  ELSE IF match_keyword(p, "feature", l) # None
  THEN Then(_build_feature(p, match_keyword(p, "feature", l), l), "FEATURE")
  ELSE Return(p, FALSE)

\* action_feature taking a Feature: header as action_initial does.
action_feature_again(p, l) ==
  IF match_keyword(p, "feature", l) # None
  THEN Then(_build_feature(p, match_keyword(p, "feature", l), l), "FEATURE")
  ELSE Unless(subaction_detect_taggable_statement(p, l),
              Return([p EXCEPT !.feature.description = Append(@, p.line)],
                     TRUE))

action_feature(p, l) ==
  Unless(subaction_detect_taggable_statement(p, l),
         IF match_keyword(p, "background", l) # None
         THEN Then(_build_background_statement(
                     p, match_keyword(p, "background", l), l), "BACKGROUND")
         ELSE Return([p EXCEPT !.feature.description = Append(@, p.line)],
                     TRUE))

action_taggable_statement(p, l) ==
  Unless(subaction_detect_taggable_statement(p, l), Return(p, FALSE))

action_rule(p, l) ==
  Unless(subaction_detect_taggable_statement(p, l),
         IF match_keyword(p, "background", l) # None
         THEN Then(_build_background_statement(
                     p, match_keyword(p, "background", l), l), "BACKGROUND")
         ELSE IF p.rule.type = None
         THEN Raise(p, "AttributeError", "description")
         ELSE Return([p EXCEPT !.rule.description = Append(@, p.line)], TRUE))

\* self.statement.steps.append(step)
AppendStep(p, step) ==
  IF ~HasSteps(p) THEN Raise(p, "AttributeError", "steps")
  ELSE Return(SetStatementSteps(p, Append(StatementSteps(p), step)), TRUE)

\* ScenarioLine taking a Background: header as action_feature does.
ScenarioLine_background(r, l) ==
  IF Failed(r.p) THEN r.p
  ELSE IF r.step # NoStep
  THEN AppendStep([r.p EXCEPT !.state = "STEPS"], r.step)
  ELSE Unless(subaction_detect_taggable_statement(r.p, l),
              IF match_keyword(r.p, "background", l) # None
              THEN Then(_build_background_statement(
                          r.p, match_keyword(r.p, "background", l), l),
                        "BACKGROUND")
              ELSE Done(AppendStatementDescription(r.p)))

\* action_scenario after its call of parse_step, which gave r = [p, step].
ScenarioLine(r, l) ==
  IF Failed(r.p) THEN r.p
  ELSE IF r.step # NoStep
  THEN AppendStep([r.p EXCEPT !.state = "STEPS"], r.step)
  ELSE Unless(subaction_detect_taggable_statement(r.p, l),
              Done(AppendStatementDescription(r.p)))

\* action_scenario without "self.last_step_type = None".
action_scenario_no_reset(p, l) == ScenarioLine(parse_step(p, l), l)

action_scenario(p, l) ==
  ScenarioLine(parse_step([p EXCEPT !.last_step_type = None], l), l)

action_background(p, l) == action_scenario(p, l)

\* line.index(stripped[0]): the number of leading blanks of a line.
Indent(l) ==
  CASE l = "  \"\"\"" -> 2
    [] l = "  hello " -> 2
    [] l = "   world" -> 3
    [] OTHER -> 0

\* stripped[:3] of a doc-string opener
Fence(l) == IF StartsWith(l, "'''") THEN "'''" ELSE "\"\"\""

\* stripped cells of a table row
Cells(l) ==
  CASE l = "| n |" -> <<"n">>
    [] l = "| 1 | 2 |" -> <<"1", "2">>
    [] OTHER -> <<>>

\* AddRow without the test of the number of cells.
AddRow_unchecked(p, l) ==
  IF p.table.type = None
  THEN Return([p EXCEPT !.table = [type |-> "Table", line |-> p.line,
                                   headings |-> Cells(l), rows |-> <<>>]],
              TRUE)
  ELSE Return([p EXCEPT !.table.rows = Append(@, Cells(l))], TRUE)

\* The second branch of action_table: a row of the table.
AddRow(p, l) ==
  IF p.table.type = None
  THEN Return([p EXCEPT !.table = [type |-> "Table", line |-> p.line,
                                   headings |-> Cells(l), rows |-> <<>>]],
              TRUE)
  ELSE IF Len(Cells(l)) # Len(p.table.headings)
  THEN Raise(p, "ParserError", "Malformed table")
  ELSE Return([p EXCEPT !.table.rows = Append(@, Cells(l))], TRUE)

\* The part of action_steps after the doc-string opener and the step: a
\* taggable statement, the first row of a step's table (action_table is
\* called with a row), or no match.
StepsTail(p, l) ==
  Unless(subaction_detect_taggable_statement(p, l),
         IF StartsWith(l, "|")
         THEN IF ~HasSteps(p) THEN Raise(p, "AttributeError", "steps")
              ELSE IF StatementSteps(p) = <<>>
              THEN Raise(p, "ParserError", "TABLE-START without step detected")
              ELSE AddRow([p EXCEPT !.state = "TABLE"], l)
         ELSE Return(p, FALSE))

\* action_steps after its call of parse_step, which gave r = [p, step].
StepsLine(r, l) ==
  IF Failed(r.p) THEN r.p
  ELSE IF r.step # NoStep THEN AppendStep(r.p, r.step)
  ELSE StepsTail(r.p, l)

action_steps(p, l) ==
  IF StartsWith(l, "\"\"\"") \/ StartsWith(l, "'''")
  THEN IF ~HasSteps(p) THEN Raise(p, "AttributeError", "steps")
       ELSE IF StatementSteps(p) = <<>>
       THEN Raise(p, "ParserError", "Multi-line text before any step")
       ELSE Return([p EXCEPT !.state = "MULTILINE_TEXT",
                             !.multiline_start = p.line,
                             !.multiline_terminator = Fence(l),
                             !.multiline_leading = Indent(l)], TRUE)
  ELSE StepsLine(parse_step(p, l), l)

\* name.endswith(":") and name[:-1] for the names of the steps.
EndsWithColon(name) == name \in {"t::", "t:"}

DropLast(name) ==
  CASE name = "t::" -> "t:" [] name = "t:" -> "t" [] OTHER -> name

\* Parser._normalize_step_name: the step after the call.
_normalize_step_name(p, step) ==
  IF p.STRIP_STEPS_WITH_TRAILING_COLON /\ EndsWithColon(step.name)
  THEN [step EXCEPT !.name = DropLast(@)]
  ELSE step

\* The last step of the statement with its field set and its name
\* normalized: step = steps[-1]; step.table = ...; _normalize_step_name(step)
SetLastStepTable(p, table) ==
  IF ~HasSteps(p) THEN Raise(p, "AttributeError", "steps")
  ELSE IF StatementSteps(p) = <<>> THEN Raise(p, "IndexError", "steps")
  ELSE SetStatementSteps(
         p, [StatementSteps(p) EXCEPT ![Len(StatementSteps(p))] =
               _normalize_step_name(p, [@ EXCEPT !.table = table])])

SetLastStepText(p, text) ==
  IF ~HasSteps(p) THEN Raise(p, "AttributeError", "steps")
  ELSE IF StatementSteps(p) = <<>> THEN Raise(p, "IndexError", "steps")
  ELSE SetStatementSteps(
         p, [StatementSteps(p) EXCEPT ![Len(StatementSteps(p))] =
               _normalize_step_name(p, [@ EXCEPT !.text = text])])

\* The end of a table: self.table is bound to the open Examples or to the
\* last step, and the line goes to action_steps.
BindTable(p) ==
  IF p.examples # None
  THEN [p EXCEPT !.scenario.examples[Len(p.scenario.examples)].table = p.table,
                 !.examples = None]
  ELSE SetLastStepTable(p, p.table)

\* line.strip() for the lines a handler gets.
Strip(l) == IF l = "  \"\"\"" THEN "\"\"\"" ELSE l

\* TableClosed without the call of action_steps: the line is dropped.
TableClosed_line_dropped(q, l) ==
  IF Failed(q) THEN q
  ELSE Return([q EXCEPT !.table = NoTable, !.state = "STEPS"], TRUE)

TableClosed(q, l) ==
  IF Failed(q) THEN q
  ELSE action_steps([q EXCEPT !.table = NoTable, !.state = "STEPS"], Strip(l))

action_table(p, l) ==
  IF ~StartsWith(l, "|") THEN TableClosed(BindTable(p), l)
  ELSE AddRow(p, l)

TextClosed(q) ==
  IF Failed(q) THEN q
  ELSE Return([q EXCEPT !.lines = <<>>,
                        !.multiline_terminator = None,
                        !.state = "STEPS"], TRUE)

\* line[leading:].rstrip() for the lines of a doc-string, leading 0 or 2.
TextLine(l, leading) ==
  IF leading = 0
  THEN CASE l = "  hello " -> "  hello"
         [] OTHER -> l
  ELSE CASE l = "  hello " -> "hello"
         [] l = "   world" -> " world"
         [] l = "  \"\"\"" -> "\"\"\""
         [] l = "\"\"\"" -> "\""
         [] l = "'''" -> "'"
         [] l = "# comment" -> "comment"
         [] l = "free text" -> "ee text"
         [] l = "Scenario: S" -> "enario: S"
         [] l = "Given g" -> "ven g"
         [] l = "| n |" -> "n |"
         [] OTHER -> ""

\* line[:leading].strip() for the lines of a doc-string, leading 0 or 2.
RemovedLinePrefix(l, leading) ==
  IF leading = 0 THEN ""
  ELSE CASE l \in {"", "  hello ", "   world", "  \"\"\""} -> ""
         [] l = "\"\"\"" -> "\"\""
         [] l = "'''" -> "''"
         [] l = "# comment" -> "#"
         [] l = "free text" -> "fr"
         [] l = "Scenario: S" -> "Sc"
         [] l = "Given g" -> "Gi"
         [] l = "| n |" -> "|"
         [] OTHER -> "??"

\* u"\n".join(lines)
RECURSIVE Join(_)
Join(ls) ==
  IF ls = <<>> THEN ""
  ELSE IF Len(ls) = 1 THEN ls[1]
  ELSE ls[1] \o "\n" \o Join(Tail(ls))

\* action_multiline_text without the BAD-INDENT diagnostics.
action_multiline_text_unchecked(p, l) ==
  IF StartsWith(l, p.multiline_terminator)
  THEN TextClosed(SetLastStepText(
                    p, [type |-> "Text", line |-> p.multiline_start,
                        value |-> Join(p.lines)]))
  ELSE Return([p EXCEPT !.lines = Append(@, TextLine(l, p.multiline_leading))],
              TRUE)

action_multiline_text(p, l) ==
  IF StartsWith(l, p.multiline_terminator)
  THEN TextClosed(SetLastStepText(
                    p, [type |-> "Text", line |-> p.multiline_start,
                        value |-> Join(p.lines)]))
  ELSE IF RemovedLinePrefix(l, p.multiline_leading) # ""
  THEN Raise([p EXCEPT !.lines = Append(@, TextLine(l, p.multiline_leading))],
             "ParserError", "BAD-INDENT in multiline text")
  ELSE Return([p EXCEPT !.lines = Append(@, TextLine(l, p.multiline_leading))],
              TRUE)

-----
\* The failure oracle.

diagnose_feature_usage_error(p) ==
  IF p.feature.type # None
  THEN "Multiple features in one file are not supported."
  ELSE "Feature should not be used here."

diagnose_rule_usage_error == "Rule should not be used here."

\* diagnose_background_usage_error asking for the tags first.
diagnose_background_usage_error_tags(p) ==
  IF p.tags # <<>>
  THEN "Background does not support tags."
  ELSE IF p.scenario_container # None /\ Container(p).scenarios # <<>>
  THEN "Background may not occur after Scenario/ScenarioOutline."
  ELSE "Background should not be used here."

diagnose_background_usage_error(p) ==
  IF p.scenario_container # None /\ Container(p).scenarios # <<>>
  THEN "Background may not occur after Scenario/ScenarioOutline."
  ELSE IF p.tags # <<>>
  THEN "Background does not support tags."
  ELSE "Background should not be used here."

diagnose_scenario_usage_error(p) ==
  IF p.scenario_container = None
  THEN "Scenario may not occur before Feature."
  ELSE "Scenario should not be used here."

diagnose_scenario_outline_usage_error(p) ==
  IF p.scenario_container = None
  THEN "ScenarioOutline may not occur before Feature."
  ELSE "ScenarioOutline should not be used here."

ask_parse_failure_oracle(p, l) ==
  IF match_keyword(p, "feature", l) # None
  THEN diagnose_feature_usage_error(p)
  ELSE IF match_keyword(p, "rule", l) # None
  THEN diagnose_rule_usage_error
  ELSE IF match_keyword(p, "background", l) # None
  THEN diagnose_background_usage_error(p)
  ELSE IF match_keyword(p, "scenario", l) # None
  THEN diagnose_scenario_usage_error(p)
  ELSE IF match_keyword(p, "scenario_outline", l) # None
  THEN diagnose_scenario_outline_usage_error(p)
  ELSE IF p.variant = "feature" /\ p.feature.type = None
  THEN "No feature found."
  ELSE None

----------------------------------------------------------------------------
\* Parser.action: the dispatch of one line.

\* getattr(self, "action_" + state_name)(line)
Handler(p, l) ==
  CASE p.state = "INITIAL" -> action_initial(p, l)
    [] p.state = "FEATURE" -> action_feature(p, l)
    [] p.state = "RULE" -> action_rule(p, l)
    [] p.state = "BACKGROUND" -> action_background(p, l)
    [] p.state = "SCENARIO" -> action_scenario(p, l)
    [] p.state = "TAGGABLE_STATEMENT" -> action_taggable_statement(p, l)
    [] p.state = "STEPS" -> action_steps(p, l)
    [] p.state = "MULTILINE_TEXT" -> action_multiline_text(p, l)
    [] p.state = "TABLE" -> action_table(p, l)
    [] OTHER -> Raise(p, "ParserError", "Parser in unknown state")

\* The language a comment line names, None when it is no language comment:
\* line[9:].strip() when the comment body starts with "language:".
LanguageOf(l) ==
  CASE l = "# language: de" -> "de"
    [] l = "# language: xx" -> "xx"
    [] OTHER -> None

\* self.language = language; self.keywords = i18n.languages[language]
SetLanguage(p, language) ==
  IF language \notin DOMAIN languages
  THEN Raise([p EXCEPT !.language = language], "KeyError", language)
  ELSE [p EXCEPT !.language = language]

\* "if not func(line): raise ParserError(msg, ..., reason=oracle(line))"
Handled(q, l) ==
  IF Failed(q) \/ q.ret THEN q
  ELSE [q EXCEPT !.status = "error",
                 !.error = [exc |-> "ParserError",
                            message |-> "Parser failure in state",
                            reason |-> ask_parse_failure_oracle(q, l),
                            line |-> q.line]]

\* action taking a line as a comment in state INITIAL only.
action_comments_dispatched(p, l) ==
  IF StartsWith(l, "#") /\ p.state = "INITIAL"
  THEN IF p.tags # <<>> \/ p.variant # "feature"
       THEN p
       ELSE IF LanguageOf(l) # None
       THEN SetLanguage(p, LanguageOf(l))
       ELSE p
  ELSE Handled(Handler(p, l), l)

\* action taking a language comment in every state.
action_language_anywhere(p, l) ==
  IF StartsWith(l, "#") /\ p.state # "MULTILINE_TEXT"
  THEN IF p.tags # <<>> \/ p.variant # "feature"
       THEN p
       ELSE IF LanguageOf(l) # None
       THEN SetLanguage(p, LanguageOf(l))
       ELSE p
  ELSE Handled(Handler(p, l), l)

action(p, l) ==
  IF StartsWith(l, "#") /\ p.state # "MULTILINE_TEXT"
  THEN IF p.state # "INITIAL" \/ p.tags # <<>> \/ p.variant # "feature"
       THEN p
       ELSE IF LanguageOf(l) # None
       THEN SetLanguage(p, LanguageOf(l))
       ELSE p
  ELSE Handled(Handler(p, l), l)

\* "for line in text.splitlines(): self.line += 1": the parser has read l.
NextLine(p, l) ==
  [p EXCEPT !.line = @ + 1, !.cur = l, !.state_name = p.state,
            !.text = IF p.variant = "steps" THEN Append(@, l) ELSE @]

\* ParseLine skipping the empty lines of a doc-string as well.
ParseLine_skip_blank(p, l) ==
  IF l \in BlankLines THEN NextLine(p, l) ELSE action(NextLine(p, l), l)

\* ParseLine handing the blank lines to the handler of the state.
ParseLine_blank_dispatched(p, l) == action(NextLine(p, l), l)

\* One round of the loop of Parser._parse_loop on the line l.
ParseLine(p, l) ==
  IF l \in BlankLines /\ p.state # "MULTILINE_TEXT"
  THEN NextLine(p, l)
  ELSE action(NextLine(p, l), l)

\* The end of Parser._parse_loop: an open table is closed by action_table(""),
\* whose return value is dropped.
Finished(q) == IF Failed(q) THEN q ELSE [q EXCEPT !.status = "done"]

\* EndOfText without the call of action_table.
EndOfText_open(p) == Finished(p)

\* EndOfText closing an open doc-string as a closing fence would.
EndOfText_text_bound(p) ==
  Finished(IF p.table.type # None THEN action_table(p, "")
           ELSE IF p.state = "MULTILINE_TEXT"
           THEN action_multiline_text(p, p.multiline_terminator)
           ELSE p)

EndOfText(p) ==
  Finished(IF p.table.type # None THEN action_table(p, "") ELSE p)

\* What the entry point returns after the loop.
Returned(p) ==
  CASE p.variant = "feature" -> p.feature.type
    [] p.variant = "rule" -> p.rule.type
    [] p.variant = "scenario" -> p.statement
    [] OTHER -> "Steps"

\* ParserError(message, line, ...): the exception the call raises.  line is a
\* required argument, a call without it raises TypeError.
ParserError(args) ==
  IF "line" \notin DOMAIN args
  THEN [exc |-> "TypeError",
        message |-> "__init__() missing 1 required positional argument: 'line'"]
  ELSE [exc |-> "ParserError", message |-> args.message]

\* The function parse_step(text), after its call of parse_steps returned
\* steps: the exception raised and the value returned.
parse_step_text(steps) ==
  IF ~(Len(steps) = 1)
  THEN [exc |-> ParserError([message |-> "MULTIPLE STEPS: Expected one"]).exc,
        value |-> NoStep]
  ELSE [exc |-> None, value |-> steps[1]]

----------------------------------------------------------------------------
\* The step registry (src/behave/step_registry.py).  A registry is a record
\* with the four lists of step definitions (steps), the bad step definitions
\* its error handler has recorded, and the class attribute
\* RAISE_ERROR_ON_BAD_STEP_DEFINITION.  An operation is an operator from the
\* registry and its arguments to the registry after the call, the exception
\* raised (exc) and the value returned.

\* Longest registry, in step definitions given to it (good or bad).
MaxDefinitions == 2

StepTypeNames == {"given", "when", "then", "step"}

\* The keywords add_step_definition is called with: those of the decorators,
\* and one no list exists for.
Keywords == {"Given", "When", "Then", "Step", "And"}

\* keyword.lower()
Lower(keyword) ==
  CASE keyword = "Given" -> "given"
    [] keyword = "When" -> "when"
    [] keyword = "Then" -> "then"
    [] keyword = "Step" -> "step"
    [] OTHER -> "and"

\* The step texts of the definitions: a plain text, a text with a field, and
\* a text that does not compile.
GoodPatterns == {"a step", "a {x}"}
BadPatterns  == {"a {x"}
Patterns     == GoodPatterns \cup BadPatterns

\* The names of the steps looked up.
StepNames == {"a step", "a thing"}

\* The step functions: one of a step module, one of a text that was executed.
Funcs == {"step_impl", "exec_impl"}

\* The location of a step function.
Location(func) ==
  IF func = "exec_impl" THEN [filename |-> "<string>", line |-> 1]
  ELSE [filename |-> "steps.py", line |-> 1]

NoLocation == [filename |-> None, line |-> 0]

\* make_matcher(func, step_text, step_type): the matcher of a definition.
make_matcher(func, step_text, step_type) ==
  [step_type |-> step_type, pattern |-> step_text, location |-> Location(func)]

NoMatcher == [step_type |-> None, pattern |-> None, location |-> NoLocation]

\* step_matcher.compile() raises no exception.
Compiles(step_matcher) == step_matcher.pattern \in GoodPatterns

\* step_matcher.matches(text), step_matcher.match(text) is not None: the
\* text is the pattern, with any text in the place of a field.
Matches(step_matcher, text) ==
  CASE step_matcher.pattern = "a step" -> text = "a step"
    [] step_matcher.pattern = "a {x}" ->
         text \in {"a step", "a thing", "a {x}", "a {x"}
    [] OTHER -> FALSE

\* step_matcher.match(text): the match, matched FALSE for None.
Match(step_matcher, text) ==
  IF Matches(step_matcher, text)
  THEN [matched |-> TRUE, step_matcher |-> step_matcher]
  ELSE [matched |-> FALSE, step_matcher |-> NoMatcher]

NoMatch == [matched |-> FALSE, step_matcher |-> NoMatcher]

\* StepRegistry.__init__, with the class attribute.
StepRegistry(raise_error) ==
  [steps |-> [t \in StepTypeNames |-> <<>>],
   bad_step_definitions |-> <<>>,
   RAISE_ERROR_ON_BAD_STEP_DEFINITION |-> raise_error]

\* StepRegistry.clear
clear(r) ==
  [r EXCEPT !.steps = [t \in StepTypeNames |-> <<>>],
            !.bad_step_definitions = <<>>]

same_step_definition(step, other_pattern, other_location) ==
  /\ step.pattern = other_pattern
  /\ step.location = other_location
  /\ other_location.filename # "<string>"

\* StepRegistry.is_good_step_definition with on_bad_step_definition: the
\* registry after the call, the value returned, the exception raised.
is_good_step_definition(r, step_matcher) ==
  IF Compiles(step_matcher)
  THEN [registry |-> r, ret |-> TRUE, exc |-> None]
  ELSE IF r.RAISE_ERROR_ON_BAD_STEP_DEFINITION
  THEN [registry |-> r, ret |-> FALSE, exc |-> "NotImplementedError"]
  ELSE [registry |-> [r EXCEPT !.bad_step_definitions =
                                  Append(@, step_matcher)],
        ret |-> FALSE, exc |-> None]

\* Existing without the test existing.matches(step_text).
RECURSIVE Existing_unmatched(_, _, _, _)
Existing_unmatched(step_definitions, i, step_text, step_location) ==
  IF i > Len(step_definitions) THEN "append"
  ELSE IF same_step_definition(step_definitions[i], step_text, step_location)
  THEN "return"
  ELSE Existing_unmatched(step_definitions, i + 1, step_text, step_location)

\* The loop of add_step_definition over the definitions of the step type,
\* from the i-th on: it returns, raises AmbiguousStep, or ends and the
\* matcher is appended.
RECURSIVE Existing(_, _, _, _)
Existing(step_definitions, i, step_text, step_location) ==
  IF i > Len(step_definitions) THEN "append"
  ELSE IF same_step_definition(step_definitions[i], step_text, step_location)
  THEN "return"
  ELSE IF Matches(step_definitions[i], step_text) THEN "raise"
  ELSE Existing(step_definitions, i + 1, step_text, step_location)

\* add_step_definition after is_good_step_definition gave g.
AddGood(g, new_step_matcher) ==
  IF g.exc # None \/ ~g.ret
  THEN [registry |-> g.registry, exc |-> g.exc]
  ELSE IF new_step_matcher.step_type \notin DOMAIN g.registry.steps
  THEN [registry |-> g.registry, exc |-> "KeyError"]
  ELSE LET found == Existing(g.registry.steps[new_step_matcher.step_type], 1,
                             new_step_matcher.pattern,
                             new_step_matcher.location)
       IN CASE found = "return" -> [registry |-> g.registry, exc |-> None]
            [] found = "raise" ->
                 [registry |-> g.registry, exc |-> "AmbiguousStep"]
            [] OTHER ->
                 [registry |->
                    [g.registry EXCEPT !.steps[new_step_matcher.step_type] =
                                         Append(@, new_step_matcher)],
                  exc |-> None]

\* StepRegistry.add_step_definition: the registry after the call and the
\* exception raised.
add_step_definition(r, keyword, step_text, func) ==
  AddGood(is_good_step_definition(
            r, make_matcher(func, step_text, Lower(keyword))),
          make_matcher(func, step_text, Lower(keyword)))

\* Candidates extending the list of the step type itself: candidates is
\* self.steps[step.step_type], not a copy of it.
Candidates_in_place(r, step) ==
  IF step.step_type # "step" /\ r.steps["step"] # <<>>
  THEN [registry |-> [r EXCEPT !.steps[step.step_type] = @ \o r.steps["step"]],
        candidates |-> r.steps[step.step_type] \o r.steps["step"]]
  ELSE [registry |-> r, candidates |-> r.steps[step.step_type]]

\* The candidates of find_step_definition and find_match: the definitions of
\* the step type, then (in a copy of the list) those of the type step.
Candidates(r, step) ==
  IF step.step_type # "step" /\ r.steps["step"] # <<>>
  THEN [registry |-> r,
        candidates |-> r.steps[step.step_type] \o r.steps["step"]]
  ELSE [registry |-> r, candidates |-> r.steps[step.step_type]]

\* The loop over the candidates from the i-th on: the first definition that
\* matches the name.
RECURSIVE FirstMatch(_, _, _)
FirstMatch(candidates, i, name) ==
  IF i > Len(candidates) THEN NoMatcher
  ELSE IF Matches(candidates[i], name) THEN candidates[i]
  ELSE FirstMatch(candidates, i + 1, name)

\* StepRegistry.find_step_definition: the registry after the call and the
\* definition returned (NoMatcher for None).
find_step_definition(r, step) ==
  [registry |-> Candidates(r, step).registry,
   value |-> FirstMatch(Candidates(r, step).candidates, 1, step.name)]

\* StepRegistry.find_match: the registry after the call and the match
\* returned (NoMatch for None).
find_match(r, step) ==
  [registry |-> Candidates(r, step).registry,
   value |-> Match(FirstMatch(Candidates(r, step).candidates, 1, step.name),
                   step.name)]

\* The steps looked up.
LookupSteps == [step_type : StepTypeNames, name : StepNames]

NoLookup == [step_type |-> None, name |-> None]

\* No call of the registry yet.
NoCall == [name |-> None, exc |-> None, step |-> NoLookup,
           definition |-> NoMatcher, match |-> NoMatch]

----------------------------------------------------------------------------
\* The state: the fields of the Parser; the line being processed (cur) and
\* the state it arrived in (state_name); the outcome of the call (status,
\* error, result); the outcome of the one-step entry point on the same text
\* (one_step); the preamble the text started with; the class attribute
\* STRIP_STEPS_WITH_TRAILING_COLON; the text read so far, kept for the entry
\* point that reads it again (parse_steps); the step registry and its last
\* call.

VARIABLES variant, language, state, line, last_step_type, tags, feature, rule,
          scenario_container, statement, scenario, examples, table, lines,
          multiline_start, multiline_terminator, multiline_leading,
          cur, state_name, status, error, result, one_step, preamble,
          STRIP_STEPS_WITH_TRAILING_COLON, text, registry, call

parser_vars ==
        <<variant, language, state, line, last_step_type, tags, feature, rule,
          scenario_container, statement, scenario, examples, table, lines,
          multiline_start, multiline_terminator, multiline_leading,
          cur, state_name, status, error, result, one_step, preamble,
          STRIP_STEPS_WITH_TRAILING_COLON, text>>

vars == <<variant, language, state, line, last_step_type, tags, feature, rule,
          scenario_container, statement, scenario, examples, table, lines,
          multiline_start, multiline_terminator, multiline_leading,
          cur, state_name, status, error, result, one_step, preamble,
          STRIP_STEPS_WITH_TRAILING_COLON, text, registry, call>>

\* The variables as the record the handlers work on.
P ==
  [variant |-> variant, language |-> language, state |-> state, line |-> line,
   last_step_type |-> last_step_type, tags |-> tags, feature |-> feature,
   rule |-> rule, scenario_container |-> scenario_container,
   statement |-> statement, scenario |-> scenario, examples |-> examples,
   table |-> table, lines |-> lines, multiline_start |-> multiline_start,
   multiline_terminator |-> multiline_terminator,
   multiline_leading |-> multiline_leading,
   cur |-> cur, state_name |-> state_name, status |-> status,
   error |-> error, ret |-> TRUE,
   STRIP_STEPS_WITH_TRAILING_COLON |-> STRIP_STEPS_WITH_TRAILING_COLON,
   text |-> text]

\* The variables hold the parser fields q.
Holds(q) ==
  /\ variant = q.variant
  /\ language = q.language
  /\ state = q.state
  /\ line = q.line
  /\ last_step_type = q.last_step_type
  /\ tags = q.tags
  /\ feature = q.feature
  /\ rule = q.rule
  /\ scenario_container = q.scenario_container
  /\ statement = q.statement
  /\ scenario = q.scenario
  /\ examples = q.examples
  /\ table = q.table
  /\ lines = q.lines
  /\ multiline_start = q.multiline_start
  /\ multiline_terminator = q.multiline_terminator
  /\ multiline_leading = q.multiline_leading
  /\ cur = q.cur
  /\ state_name = q.state_name
  /\ status = q.status
  /\ error = q.error
  /\ STRIP_STEPS_WITH_TRAILING_COLON = q.STRIP_STEPS_WITH_TRAILING_COLON
  /\ text = q.text

\* The parser fields become q.
Assign(q) ==
  /\ variant' = q.variant
  /\ language' = q.language
  /\ state' = q.state
  /\ line' = q.line
  /\ last_step_type' = q.last_step_type
  /\ tags' = q.tags
  /\ feature' = q.feature
  /\ rule' = q.rule
  /\ scenario_container' = q.scenario_container
  /\ statement' = q.statement
  /\ scenario' = q.scenario
  /\ examples' = q.examples
  /\ table' = q.table
  /\ lines' = q.lines
  /\ multiline_start' = q.multiline_start
  /\ multiline_terminator' = q.multiline_terminator
  /\ multiline_leading' = q.multiline_leading
  /\ cur' = q.cur
  /\ state_name' = q.state_name
  /\ status' = q.status
  /\ error' = q.error
  /\ STRIP_STEPS_WITH_TRAILING_COLON' = q.STRIP_STEPS_WITH_TRAILING_COLON
  /\ text' = q.text

\* A step of the call: the fields become q, and the call returns when q is
\* its end.
Becomes(q) ==
  /\ Assign(q)
  /\ result' = IF q.status = "done" THEN Returned(q) ELSE result
  /\ one_step' = IF q.status = "done" /\ q.variant = "steps"
                 THEN parse_step_text(q.scenario.steps) ELSE one_step
  /\ UNCHANGED <<preamble, registry, call>>

\* Parser.reset, then the start of _parse_loop for the entry point.
Variants == {"feature", "rule", "scenario", "steps"}

InitialState(v) ==
  CASE v = "feature" -> "INITIAL"
    [] v = "rule" -> "RULE"
    [] v = "scenario" -> "SCENARIO"
    [] OTHER -> "STEPS"

\* The parser fields when the loop of _parse_loop starts.  For the steps
\* entry point _build_scenario_statement has made the Scenario that takes the
\* steps (no container, so it is added to none).
reset(v) ==
  [variant |-> v, language |-> "en", state |-> "INITIAL", line |-> 0,
   last_step_type |-> None, tags |-> <<>>, feature |-> NoContainer,
   rule |-> NoContainer, scenario_container |-> None, statement |-> None,
   scenario |-> NoScenario, examples |-> None, table |-> NoTable,
   lines |-> <<>>, multiline_start |-> 0, multiline_terminator |-> None,
   multiline_leading |-> 0, cur |-> None, state_name |-> None,
   status |-> "parsing",
   error |-> NoError, ret |-> TRUE,
   STRIP_STEPS_WITH_TRAILING_COLON |-> FALSE, text |-> <<>>]

Start(v) ==
  LET p == [reset(v) EXCEPT !.state = InitialState(v)]
  IN IF p.state = "STEPS"
     THEN _build_scenario_statement(p, keywords(p)["scenario"][1], "Scenario:")
     ELSE p

\* A text is one of these preambles (for the whole-file entry point, the
\* last one for the scenario entry point) and up
\* to MaxLines further lines, so that the further lines reach the statements
\* below a feature and below a feature with a background, the end of an
\* indented doc-string, the statement after tag lines with a comment, and a
\* table and a doc-string of a step whose name ends in colons.
Preambles ==
  { <<>>,
    <<"Feature: A">>,
    <<"Feature: A", "Background: B", "Given g">>,
    <<"Feature: A", "Background: B", "Given g", "  \"\"\"">>,
    <<"@a @b  @c  # comment">>,
    <<"@a @a # @b c">>,
    <<"Scenario: S", "Then t::">> }

\* The loop of Parser._parse_loop over the lines of a text from the i-th
\* on; an exception ends it.
RECURSIVE ParseLines(_, _, _)
ParseLines(p, lns, i) ==
  IF i > Len(lns) \/ Failed(p) THEN p
  ELSE ParseLines(ParseLine(p, lns[i]), lns, i + 1)

\* Restart going on with the fields as the first loop left them.
Restart_no_reset(p) ==
  [p EXCEPT !.state = InitialState(p.variant), !.line = 0,
            !.status = "parsing", !.text = <<>>]

\* Restart taking the default language again.
Restart_default_language(p) ==
  [Start(p.variant) EXCEPT
     !.STRIP_STEPS_WITH_TRAILING_COLON = p.STRIP_STEPS_WITH_TRAILING_COLON]

\* Parser.reset and the start of _parse_loop on a parser that has parsed
\* before: reset leaves the language and the class attribute alone.  Its
\* second statement, self.keywords = i18n.languages[self.language], raises
\* KeyError for a language that has no keywords, before any field is set.
Restart(p) ==
  IF p.language \notin DOMAIN languages
  THEN Raise(p, "KeyError", p.language)
  ELSE [Start(p.variant) EXCEPT
          !.language = p.language,
          !.STRIP_STEPS_WITH_TRAILING_COLON = p.STRIP_STEPS_WITH_TRAILING_COLON]

\* The end of Parser.parse_steps: q is the parser after the loop of
\* parse_steps itself; _parse_loop then reads the text again.
parse_steps(q) ==
  IF Failed(q) THEN q ELSE EndOfText(ParseLines(Restart(q), q.text, 1))

\* The end of the call of the entry point.
EndOfCall(p) ==
  IF p.variant = "steps" THEN parse_steps(EndOfText(p)) ELSE EndOfText(p)

\* The option is tried on the text whose step name ends in colons.
Init ==
  /\ \E pre \in Preambles, strip \in BOOLEAN :
       \E v \in Variants :
         /\ pre # <<>>
            => v = IF pre[1] \in ScenarioLines THEN "scenario" ELSE "feature"
         /\ strip => pre # <<>> /\ pre[Len(pre)] \in ColonStepLines
         /\ Holds(ParseLines(
                    [Start(v) EXCEPT !.STRIP_STEPS_WITH_TRAILING_COLON = strip],
                    pre, 1))
         /\ preamble = pre
  /\ result = "pending"
  /\ one_step = [exc |-> None, value |-> NoStep]
  /\ registry = StepRegistry(FALSE)
  /\ call = NoCall

Reading == status = "parsing" /\ line < Len(preamble) + MaxLines

\* A blank line outside a doc-string is skipped.
SkipBlank ==
  /\ Reading /\ state # "MULTILINE_TEXT"
  /\ \E l \in BlankLines : Becomes(ParseLine(P, l))

\* A comment line outside a doc-string.
Comment ==
  /\ Reading /\ state # "MULTILINE_TEXT"
  /\ \E l \in CommentLines : Becomes(ParseLine(P, l))

\* Any other line goes to the handler of the state; in a doc-string every
\* line does.
Dispatched == Lines \ (BlankLines \cup CommentLines)

Initial ==
  /\ Reading /\ state = "INITIAL"
  /\ \E l \in Dispatched : Becomes(ParseLine(P, l))

Feature ==
  /\ Reading /\ state = "FEATURE"
  /\ \E l \in Dispatched : Becomes(ParseLine(P, l))

Rule ==
  /\ Reading /\ state = "RULE"
  /\ \E l \in Dispatched : Becomes(ParseLine(P, l))

Background ==
  /\ Reading /\ state = "BACKGROUND"
  /\ \E l \in Dispatched : Becomes(ParseLine(P, l))

Scenario ==
  /\ Reading /\ state = "SCENARIO"
  /\ \E l \in Dispatched : Becomes(ParseLine(P, l))

TaggableStatement ==
  /\ Reading /\ state = "TAGGABLE_STATEMENT"
  /\ \E l \in Dispatched : Becomes(ParseLine(P, l))

Steps ==
  /\ Reading /\ state = "STEPS"
  /\ \E l \in Dispatched : Becomes(ParseLine(P, l))

\* The lines fed to an open doc-string: a blank line, a comment, a keyword
\* line, a step, a table row, free and indented text and the fences.
DocStringLines ==
  BlankLines \cup CommentLines \cup ScenarioLines \cup {"Given g", "| n |"}
  \cup TextLines \cup FenceLines \cup DocLines

MultilineText ==
  /\ Reading /\ state = "MULTILINE_TEXT"
  /\ \E l \in DocStringLines : Becomes(ParseLine(P, l))

Table ==
  /\ Reading /\ state = "TABLE"
  /\ \E l \in Dispatched : Becomes(ParseLine(P, l))

\* The text ends.
EndOfInput ==
  /\ status = "parsing"
  /\ Becomes(EndOfCall(P))

\* The entry point is called again on the same Parser, after it returned or
\* raised, with a new text.
ParseAgain ==
  /\ status \in {"done", "error"}
  /\ Assign(Restart(P))
  /\ result' = "pending"
  /\ one_step' = [exc |-> None, value |-> NoStep]
  /\ preamble' = <<>>
  /\ UNCHANGED <<registry, call>>

Next ==
  \/ SkipBlank \/ Comment
  \/ Initial \/ Feature \/ Rule \/ Background \/ Scenario
  \/ TaggableStatement \/ Steps \/ MultilineText \/ Table
  \/ EndOfInput \/ ParseAgain

Spec == Init /\ [][Next]_vars

----------------------------------------------------------------------------
\* The step registry on its own: step definitions are added, steps are
\* looked up, the registry is cleared.  call is the last call: its name, the
\* exception it raised, the step looked up and what the lookup returned.

\* The number of definitions the registry was given and has kept.
Definitions(r) ==
  Len(r.steps["given"]) + Len(r.steps["when"]) + Len(r.steps["then"])
  + Len(r.steps["step"]) + Len(r.bad_step_definitions)

AddStepDefinition ==
  /\ Definitions(registry) < MaxDefinitions
  /\ \E keyword \in Keywords, step_text \in Patterns, func \in Funcs :
       LET out == add_step_definition(registry, keyword, step_text, func)
       IN /\ registry' = out.registry
          /\ call' = [NoCall EXCEPT !.name = "add_step_definition",
                                    !.exc = out.exc]
  /\ UNCHANGED parser_vars

FindStepDefinition ==
  /\ \E step \in LookupSteps :
       LET out == find_step_definition(registry, step)
       IN /\ registry' = out.registry
          /\ call' = [NoCall EXCEPT !.name = "find_step_definition",
                                    !.step = step, !.definition = out.value]
  /\ UNCHANGED parser_vars

FindMatch ==
  /\ \E step \in LookupSteps :
       LET out == find_match(registry, step)
       IN /\ registry' = out.registry
          /\ call' = [NoCall EXCEPT !.name = "find_match",
                                    !.step = step, !.match = out.value]
  /\ UNCHANGED parser_vars

Clear ==
  /\ registry' = clear(registry)
  /\ call' = [NoCall EXCEPT !.name = "clear"]
  /\ UNCHANGED parser_vars

RegistryInit ==
  /\ Holds(Start("feature"))
  /\ preamble = <<>>
  /\ result = "pending"
  /\ one_step = [exc |-> None, value |-> NoStep]
  /\ \E raise_error \in BOOLEAN : registry = StepRegistry(raise_error)
  /\ call = NoCall

RegistryNext ==
  \/ AddStepDefinition \/ FindStepDefinition \/ FindMatch \/ Clear

RegistrySpec == RegistryInit /\ [][RegistryNext]_vars

----------------------------------------------------------------------------
\* The claims.  cur is the last line read, state_name the state it arrived
\* in, line its number.  The keyword lines are English: what a claim says of
\* a keyword line is stated for the language en.

\* C1: in a whole-file parse, a Feature: line that arrives (outside a
\* doc-string) after a Feature has been built fails the parse with a
\* ParserError at that line, whose reason is "Multiple features in one file
\* are not supported."
C1_SecondFeatureFails ==
  ( /\ variant = "feature" /\ language = "en"
    /\ cur \in FeatureLines
    /\ state_name # "MULTILINE_TEXT"
    /\ feature.type = "Feature" /\ feature.line < line )
  => /\ status = "error"
     /\ error.exc = "ParserError"
     /\ error.line = line
     /\ error.reason = "Multiple features in one file are not supported."

FeatureHeader ==
  \/ language = "en" /\ cur \in FeatureLines
  \/ language = "de" /\ cur \in FunktionLines

\* C3: in a whole-file parse no node exists while no Feature has been built,
\* and in state INITIAL every line that is not blank, a comment, a tag line
\* or a Feature: header fails the parse.
C3_NothingBeforeFeature ==
  variant = "feature"
  => /\ feature.type = None
          => /\ rule.type = None /\ scenario.type = None
             /\ statement = None /\ scenario_container = None
             /\ examples = None /\ table.type = None
     /\ ( /\ state_name = "INITIAL"
          /\ cur \notin BlankLines \cup CommentLines \cup TagLines
                        \cup BadTagLines \cup TagCommentLines
          /\ ~FeatureHeader )
          => status = "error" /\ error.exc = "ParserError"

C3_Witness ==
  /\ variant = "feature" /\ state_name = "INITIAL" /\ cur \in ScenarioLines
  /\ status = "error" /\ feature.type = None /\ scenario.type = None

\* C4: in every state, the Background of a container (the Feature or the
\* current Rule) was built before each of the container's scenarios.
C4_BackgroundBeforeScenarios ==
  \A c \in {feature, rule} :
    c.background.type # None
    => \A i \in 1..Len(c.scenarios) : c.background.line < c.scenarios[i]

C4_Witness ==
  /\ status = "done"
  /\ feature.background.type # None /\ feature.background.steps # <<>>
  /\ feature.scenarios # <<>>

\* C5: a Background: line that arrives (outside a doc-string) when the
\* current container holds a Scenario or ScenarioOutline fails the parse with
\* a ParserError whose reason is "Background may not occur after
\* Scenario/ScenarioOutline."
C5_BackgroundAfterScenarioFails ==
  ( /\ cur \in BackgroundLines /\ language = "en"
    /\ state_name # "MULTILINE_TEXT"
    /\ scenario_container # None
    /\ Container(P).scenarios # <<>> )
  => /\ status = "error"
     /\ error.exc = "ParserError"
     /\ error.reason =
          "Background may not occur after Scenario/ScenarioOutline."

\* C6: a Background: line that arrives while tags are pending fails the
\* parse with a ParserError and builds no Background; the reason is
\* "Background does not support tags." when the current container has no
\* scenarios, and the after-Scenario reason when it has.
C6_TaggedBackgroundFails ==
  ( /\ cur \in BackgroundLines /\ language = "en"
    /\ state_name # "MULTILINE_TEXT"
    /\ tags # <<>> )
  => /\ status = "error"
     /\ error.exc = "ParserError"
     /\ error.line = line
     /\ error.reason =
          IF Container(P).scenarios = <<>>
          THEN "Background does not support tags."
          ELSE "Background may not occur after Scenario/ScenarioOutline."
     /\ feature.background.line # line
     /\ rule.background.line # line

C6_Witness ==
  /\ cur \in BackgroundLines /\ state_name = "TAGGABLE_STATEMENT"
  /\ tags # <<>> /\ feature.type = "Feature" /\ feature.scenarios = <<>>
  /\ status = "error"
  /\ error.reason = "Background does not support tags."

\* The states whose handler recognises an Examples: header.
ExamplesStates ==
  {"FEATURE", "RULE", "BACKGROUND", "SCENARIO", "TAGGABLE_STATEMENT",
   "STEPS", "TABLE"}

\* C7: an Examples: header that arrives in a state whose handler recognises
\* it adds a new Examples, last in the examples of the ScenarioOutline being
\* filled; when the statement being filled is no ScenarioOutline the parse
\* fails with ParserError "Examples must only appear inside scenario
\* outline" and no Examples is created.  Only a ScenarioOutline ever holds
\* Examples.
C7_ExamplesOnlyInOutline ==
  /\ scenario.examples # <<>> => scenario.type = "ScenarioOutline"
  /\ examples # None => statement = "ScenarioOutline"
  /\ (cur \in ExamplesLines /\ language = "en"
      /\ state_name \in ExamplesStates)
     => IF statement = "ScenarioOutline"
        THEN /\ status # "error"
             /\ scenario.type = "ScenarioOutline"
             /\ scenario.examples # <<>>
             /\ scenario.examples[Len(scenario.examples)].line = line
        ELSE /\ status = "error"
             /\ error.exc = "ParserError"
             /\ error.message =
                  "Examples must only appear inside scenario outline"
             /\ examples = None
             /\ \A i \in 1..Len(scenario.examples) :
                  scenario.examples[i].line # line

C7_Witness ==
  /\ cur \in ExamplesLines /\ state_name = "STEPS" /\ statement = "Scenario"
  /\ scenario.steps # <<>> /\ scenario.examples = <<>>
  /\ status = "error"
  /\ error.message = "Examples must only appear inside scenario outline"

\* C8 as claimed: after a parse that ends without an error, a
\* ScenarioOutline has at least one Examples.
C8_OutlineHasExamples ==
  (status = "done" /\ scenario.type = "ScenarioOutline")
  => scenario.examples # <<>>

\* The lines of the Examples of a scenario, in order.
ExamplesLinesOf(s) == [i \in 1..Len(s.examples) |-> s.examples[i].line]

\* C8, amended: a ScenarioOutline holds one Examples for each accepted
\* Examples: header that followed it, in the order of the headers, and none
\* when no header followed: a new scenario starts with no Examples, an
\* accepted header appends one, any other step leaves the list alone, also
\* the end of the text.
C8_ExamplesPerHeader ==
  [][ status = "parsing"
      => IF /\ line' = line + 1 /\ cur' \in ExamplesLines /\ language = "en"
            /\ state \in ExamplesStates /\ status' # "error"
         THEN /\ scenario'.type = "ScenarioOutline"
              /\ scenario'.line = scenario.line
              /\ ExamplesLinesOf(scenario') =
                   Append(ExamplesLinesOf(scenario), line')
         ELSE IF line' = line + 1 /\ scenario'.line = line'
         THEN scenario'.examples = <<>>
         ELSE ExamplesLinesOf(scenario') = ExamplesLinesOf(scenario) ]_vars

C8_Witness ==
  /\ status = "done" /\ variant = "feature"
  /\ scenario.type = "ScenarioOutline" /\ scenario.examples = <<>>
  /\ feature.scenarios # <<>>

\* The tags of the nodes built at line n.
TagsBuiltAt(f, r, s, n) ==
  {c.tags : c \in {d \in {f, r, s} : d.type # None /\ d.line = n}}
  \cup {s.examples[i].tags :
          i \in {j \in 1..Len(s.examples) : s.examples[j].line = n}}

\* The tags of a tag line at line n, in source order.
TagsOfLine(l, n) ==
  CASE l = "@b @a" -> <<[name |-> "b", line |-> n], [name |-> "a", line |-> n]>>
    [] OTHER -> <<>>

\* The elements of a sequence
Range(seq) == {seq[i] : i \in 1..Len(seq)}

\* C9: a line that builds a Feature, Rule, Scenario, ScenarioOutline or
\* Examples without failing the parse gives the node exactly the pending tags, in order, and leaves no
\* tag pending; an accepted tag line adds its tags at the end of the pending
\* tags; no other step changes the pending tags.  No tag is on two nodes,
\* and a Background or a Step has no tags.
C9_TagsAttachOnce ==
  /\ [][ (line' = line + 1 /\ status' # "error")
         => IF TagsBuiltAt(feature', rule', scenario', line') # {}
            THEN /\ TagsBuiltAt(feature', rule', scenario', line') = {tags}
                 /\ tags' = <<>>
            ELSE IF cur' \in TagLines /\ state # "MULTILINE_TEXT"
            THEN tags' = tags \o TagsOfLine(cur', line')
            ELSE tags' = tags ]_vars
  /\ [](/\ Range(feature.tags) \cap Range(rule.tags) = {}
        /\ Range(feature.tags) \cap Range(scenario.tags) = {}
        /\ Range(rule.tags) \cap Range(scenario.tags) = {}
        /\ \A i \in 1..Len(scenario.examples) :
             /\ \A c \in {feature, rule, scenario} :
                  Range(scenario.examples[i].tags) \cap Range(c.tags) = {}
             /\ \A j \in 1..Len(scenario.examples) :
                  i # j => Range(scenario.examples[i].tags)
                             \cap Range(scenario.examples[j].tags) = {}
        /\ \A c \in {feature, rule} :
             /\ "tags" \notin DOMAIN c.background
             /\ \A i \in 1..Len(c.background.steps) :
                  "tags" \notin DOMAIN c.background.steps[i]
        /\ \A i \in 1..Len(scenario.steps) :
             "tags" \notin DOMAIN scenario.steps[i])

C9_Witness ==
  /\ status = "done" /\ tags = <<>>
  /\ feature.type = "Feature" /\ feature.tags = <<>>
  /\ scenario.type = "Scenario" /\ Len(scenario.tags) = 4
  /\ scenario.tags[1].name = scenario.tags[3].name
  /\ scenario.tags[1].line < scenario.tags[3].line

\* The last step type of a list of steps, None when it is empty.
LastStepType(steps) ==
  IF steps = <<>> THEN None ELSE steps[Len(steps)].step_type

\* The steps of the Background that applies in the current container: its
\* own steps, else those the Rule inherits from the Feature.
ApplicableBackgroundSteps ==
  LET own == CASE scenario_container = "Feature" -> feature.background.steps
               [] scenario_container = "Rule" -> rule.background.steps
               [] OTHER -> <<>>
  IN IF own # <<>> THEN own
     ELSE IF scenario_container = "Rule" THEN feature.background.steps
     ELSE <<>>

\* The type an And/But step takes in the current block.
AndButType ==
  IF StatementSteps(P) # <<>> THEN LastStepType(StatementSteps(P))
  ELSE LastStepType(ApplicableBackgroundSteps)

AndButLines == {"And b", "But c"}

\* C10: an And or But line that arrives where a step may stand becomes a
\* step of the block with the type of the block's last step; in a block
\* without steps it takes the type of the last step of the applicable
\* Background; when there is none, the parse fails with a ParserError and
\* the block gets no step.
C10_AndButResolved ==
  [][ ( /\ line' = line + 1 /\ cur' \in AndButLines
        /\ state \in {"BACKGROUND", "SCENARIO", "STEPS", "TABLE"}
        /\ HasSteps(P) )
      => IF AndButType = None
         THEN /\ status' = "error"
              /\ error'.exc = "ParserError"
              /\ Len(StatementSteps(P)') = Len(StatementSteps(P))
         ELSE /\ status' = "parsing"
              /\ state' = "STEPS"
              /\ Len(StatementSteps(P)') = Len(StatementSteps(P)) + 1
              /\ LET step == StatementSteps(P)'[Len(StatementSteps(P)')]
                 IN /\ step.line = line'
                    /\ step.keyword \in {"And", "But"}
                    /\ step.step_type = AndButType
                    /\ step.step_type \in {"given", "when", "then"} ]_vars

C10_Witness ==
  /\ scenario_container = "Rule" /\ rule.background.steps = <<>>
  /\ feature.background.steps # <<>>
  /\ scenario.line > rule.line /\ Len(scenario.steps) = 1
  /\ scenario.steps[1].keyword = "And"
  /\ scenario.steps[1].step_type = "given"
  /\ status = "parsing" /\ cur \in AndButLines

\* The steps of the AST: those of the backgrounds of the Feature and of the
\* current Rule, and those of the current scenario.
AllSteps ==
  Range(feature.background.steps) \cup Range(rule.background.steps)
  \cup Range(scenario.steps)

\* C11: in every state, every Step of the AST has a semantic type that is
\* given, when or then, whatever its keyword.
C11_StepTypeResolved ==
  \A step \in AllSteps : step.step_type \in {"given", "when", "then"}

C11_Witness ==
  /\ Len(scenario.steps) = 3
  /\ scenario.steps[1].keyword = "*"
  /\ scenario.steps[2].keyword = "When"
  /\ scenario.steps[3].keyword \in {"And", "But"}
  /\ status = "done"

BulletLines == {"* s"}

StepStates == {"BACKGROUND", "SCENARIO", "STEPS", "TABLE"}

\* C12 as claimed: a * line that arrives where a step may stand becomes a
\* step with the type of the block's last step; in a block without steps
\* the step has the type "step", the parse goes on and last_step_type stays
\* unknown.
C12_BulletSentinel ==
  [][ ( /\ line' = line + 1 /\ cur' \in BulletLines
        /\ state \in StepStates /\ HasSteps(P) )
      => /\ status' = "parsing"
         /\ Len(StatementSteps(P)') = Len(StatementSteps(P)) + 1
         /\ LET step == StatementSteps(P)'[Len(StatementSteps(P)')]
            IN IF StatementSteps(P) # <<>>
               THEN step.step_type = LastStepType(StatementSteps(P))
               ELSE step.step_type = "step" /\ last_step_type' = None ]_vars

\* C12, amended: a * line that arrives where a step may stand becomes a step
\* of the block and the parse goes on; the step has the type of the block's
\* last step, and in a block without steps the type given, under which the
\* alias is listed first; last_step_type is then the type of the step.
C12_BulletInherits ==
  [][ ( /\ line' = line + 1 /\ cur' \in BulletLines
        /\ state \in StepStates /\ HasSteps(P) )
      => /\ status' = "parsing"
         /\ state' = "STEPS"
         /\ Len(StatementSteps(P)') = Len(StatementSteps(P)) + 1
         /\ LET step == StatementSteps(P)'[Len(StatementSteps(P)')]
            IN /\ step.line = line'
               /\ step.keyword = "*"
               /\ step.step_type = IF StatementSteps(P) # <<>>
                                   THEN LastStepType(StatementSteps(P))
                                   ELSE "given"
               /\ last_step_type' = step.step_type ]_vars

C12_Witness ==
  /\ cur \in BulletLines /\ status = "parsing" /\ state = "STEPS"
  /\ Len(scenario.steps) = 1
  /\ scenario.steps[1].keyword = "*"
  /\ scenario.steps[1].step_type = "given"
  /\ last_step_type = "given"

\* The number of cells of a table row.
CellCount(l) == CASE l = "| n |" -> 1 [] l = "| 1 | 2 |" -> 2 [] OTHER -> 0

\* The tables of the AST and the open table.
AllTables ==
  {t \in {table} \cup {step.table : step \in AllSteps}
         \cup {scenario.examples[i].table :
                 i \in 1..Len(scenario.examples)} : t.type # None}

C14_TableClosedAtEnd ==
  [][ (status = "parsing" /\ line' = line /\ table.type # None)
      => /\ status' = "done"
         /\ table' = NoTable
         /\ examples' = None
         /\ IF examples # None
            THEN /\ Len(scenario'.examples) = Len(scenario.examples)
                 /\ scenario'.examples[Len(scenario'.examples)].table = table
                 /\ scenario'.steps = scenario.steps
            ELSE /\ Len(StatementSteps(P)') = Len(StatementSteps(P))
                 /\ StatementSteps(P)'[Len(StatementSteps(P)')].table = table
                 /\ scenario'.examples = scenario.examples ]_vars

C14_Witness ==
  /\ status = "done" /\ state_name = "TABLE" /\ cur \in RowLines
  /\ table = NoTable /\ examples = None
  /\ scenario.examples # <<>>
  /\ scenario.examples[Len(scenario.examples)].table.type = "Table"

\* The stripped form of a line of a doc-string.
Stripped(l) ==
  CASE l = "  hello " -> "hello"
    [] l = "   world" -> "world"
    [] l = "  \"\"\"" -> "\"\"\""
    [] OTHER -> l

\* A string of n blanks.
Blanks(n) == CASE n = 1 -> " " [] n = 2 -> "  " [] n = 3 -> "   " [] OTHER -> ""

\* The line that arrives is captured by the open doc-string (it does not
\* close it).
Captured ==
  /\ line' = line + 1 /\ state = "MULTILINE_TEXT"
  /\ ~StartsWith(cur', multiline_terminator)

\* The line that arrives would lose a character that is no blank when the
\* indentation of the opener is removed.
LosesText == cur' \notin BlankLines /\ Indent(cur') < multiline_leading

\* C15: a captured line of a doc-string with a character that is no blank
\* among its first multiline_leading characters fails the parse with a
\* ParserError (BAD-INDENT) and leaves the AST as it is; a line captured
\* without an error keeps every character that is no blank.
C15_BadIndentFails ==
  [][ Captured
      => IF LosesText
         THEN /\ status' = "error"
              /\ error'.exc = "ParserError"
              /\ error'.message = "BAD-INDENT in multiline text"
              /\ error'.line = line'
              /\ feature' = feature /\ rule' = rule /\ scenario' = scenario
         ELSE /\ status' = "parsing"
              /\ Len(lines') = Len(lines) + 1
              /\ cur' \notin BlankLines
                 => Len(lines'[Len(lines')]) =
                      Len(Stripped(cur')) + Indent(cur') - multiline_leading
    ]_vars

C15_Witness ==
  /\ state_name = "MULTILINE_TEXT" /\ multiline_leading = 2
  /\ cur = "free text" /\ status = "error"
  /\ error.message = "BAD-INDENT in multiline text"
  /\ \A step \in AllSteps : step.text.type = None

\* The lines joined by newlines, from the left.
RECURSIVE Joined(_, _)
Joined(ls, n) ==
  IF n = 0 THEN ""
  ELSE IF n = 1 THEN ls[1]
  ELSE Joined(ls, n - 1) \o "\n" \o ls[n]

\* C16: in state MULTILINE_TEXT a line whose stripped form starts with the
\* fence of the opener closes the doc-string: the text of the last step
\* becomes the captured lines joined by newlines, the buffer is emptied and
\* the state is STEPS.  Every other line (blank, comment, keyword, step, row,
\* other fence) that does not fail the parse is added to the buffer, without
\* the indentation of the opener and without trailing blanks, and changes
\* nothing else.
C16_DocStringCapture ==
  [][ (line' = line + 1 /\ state = "MULTILINE_TEXT")
      => IF StartsWith(cur', multiline_terminator)
         THEN /\ status' = "parsing"
              /\ state' = "STEPS"
              /\ lines' = <<>>
              /\ Len(StatementSteps(P)') = Len(StatementSteps(P))
              /\ LET step == StatementSteps(P)'[Len(StatementSteps(P)')]
                 IN /\ step.text.type = "Text"
                    /\ step.text.value = Joined(lines, Len(lines))
                    /\ step.text.line = multiline_start
         ELSE /\ status' = "error" => LosesText
              /\ status' # "error"
                 => /\ state' = "MULTILINE_TEXT"
                    /\ lines' =
                         Append(lines,
                                IF cur' \in BlankLines THEN ""
                                ELSE Blanks(Indent(cur') - multiline_leading)
                                       \o Stripped(cur'))
                    /\ feature' = feature /\ rule' = rule
                    /\ scenario' = scenario /\ tags' = tags
                    /\ table' = table /\ statement' = statement
                    /\ examples' = examples
                    /\ last_step_type' = last_step_type ]_vars

C16_Witness ==
  /\ state = "STEPS" /\ state_name = "MULTILINE_TEXT" /\ lines = <<>>
  /\ status = "parsing" /\ multiline_leading = 2
  /\ feature.background.steps # <<>>
  /\ feature.background.steps[1].text.value = "hello\n world"

\* C17: a comment line that arrives outside a doc-string leaves the state,
\* the pending tags, the open table, the open Examples, last_step_type and
\* the AST as they are; the language changes only when the state is INITIAL,
\* no tags are pending, the entry point is the whole-file one and the
\* comment names a language.
C17_CommentHasNoEffect ==
  [][ (line' = line + 1 /\ cur' \in CommentLines /\ state # "MULTILINE_TEXT")
      => /\ state' = state /\ tags' = tags
         /\ table' = table /\ examples' = examples
         /\ last_step_type' = last_step_type
         /\ feature' = feature /\ rule' = rule /\ scenario' = scenario
         /\ statement' = statement
         /\ scenario_container' = scenario_container
         /\ lines' = lines
         /\ language' # language
            => /\ state = "INITIAL" /\ tags = <<>> /\ variant = "feature"
               /\ LanguageOf(cur') # None ]_vars

C17_Witness ==
  /\ state_name = "TABLE" /\ state = "TABLE" /\ cur \in CommentLines
  /\ table.type = "Table" /\ statement = "Background" /\ status = "parsing"

\* C18 as claimed, for a language comment after another comment: it is not
\* the first line of the text that is not blank, so it does not change the
\* language.
C18_FirstLineOnly ==
  [][ (line' = line + 1 /\ cur \in CommentLines) => language' = language ]_vars

\* C18, amended: the language is en for a new Parser and stays until a
\* language comment arrives in state INITIAL of a whole-file parse with no
\* tags pending, on whatever line that is; each such comment sets the language, no other line changes it,
\* and the Feature header is matched with the keywords of the language.
C18_LanguageDirective ==
  /\ [][ line' = line + 1
         => language' =
              IF /\ state = "INITIAL" /\ tags = <<>> /\ variant = "feature"
                 /\ cur' \in CommentLines /\ LanguageOf(cur') # None
              THEN LanguageOf(cur') ELSE language ]_vars
  /\ (line = 0 => language = "en")
  /\ []((state_name = "INITIAL" /\ cur \in FeatureLines \cup FunktionLines)
        => /\ status # "error"
              <=> (cur \in FeatureLines <=> language = "en")
           /\ status # "error" => feature.line = line)

C18_Witness ==
  /\ language = "de" /\ feature.type = "Feature" /\ feature.line = 3
  /\ cur \in FunktionLines /\ preamble = <<>> /\ status = "parsing"

\* C19: a language comment that names a language without a keyword table
\* fails the parse with a ParserError.
C19_UnknownLanguageFails ==
  ( /\ state_name = "INITIAL" /\ tags = <<>> /\ variant = "feature"
    /\ cur \in CommentLines /\ LanguageOf(cur) \notin DOMAIN languages
    /\ LanguageOf(cur) # None )
  => status = "error" /\ error.exc = "ParserError"

\* C20: the one-step entry point returns the step when the text holds one
\* step, and raises ParserError when it holds no step or several.
C20_OneStep ==
  (variant = "steps" /\ status = "done")
  => IF Len(scenario.steps) = 1
     THEN one_step = [exc |-> None, value |-> scenario.steps[1]]
     ELSE one_step.exc = "ParserError"

\* C21: the scenario entry point starts in state SCENARIO and returns the
\* first Scenario of the text.  The call returns the statement that is
\* current when the text ends, so the claim says that a Scenario, once built,
\* stays the current statement whatever header follows, and that the call
\* returns it.
C21_FirstScenarioReturned ==
  /\ [](variant = "scenario" /\ line = 0 => state = "SCENARIO")
  /\ [][ (variant = "scenario" /\ scenario.type = "Scenario"
          /\ status' # "error")
         => /\ statement' = "Scenario"
            /\ scenario'.type = "Scenario"
            /\ scenario'.line = scenario.line ]_vars
  /\ [](variant = "scenario" /\ status = "done" /\ scenario.type = "Scenario"
          => result = "Scenario")

\* C22: the rule entry point starts in state RULE with a Rule as the current
\* rule and scenario container; a description line, a Background: header or
\* a Scenario header that arrives in state RULE does not fail the parse and
\* is attached to the Rule, and the call returns a Rule.
C22_PlaceholderRule ==
  (variant = "rule" /\ language = "en")
  => /\ line = 0
          => /\ state = "RULE" /\ rule.type = "Rule"
             /\ scenario_container = "Rule"
     /\ ( /\ state_name = "RULE"
          /\ cur \in TextLines \cup BackgroundLines \cup ScenarioLines )
          => /\ status # "error"
             /\ rule.type = "Rule" /\ scenario_container = "Rule"
             /\ cur \in TextLines => line \in Range(rule.description)
             /\ cur \in BackgroundLines => rule.background.line = line
             /\ cur \in ScenarioLines => line \in Range(rule.scenarios)
     /\ status = "done" => result = "Rule"

\* The lines of the steps of a list, in order.
StepLinesOf(steps) == [i \in 1..Len(steps) |-> steps[i].line]

\* The synthetic Scenario of the steps entry point is the current statement:
\* the text had no header line so far.
Synthetic == statement = "Scenario" /\ scenario.line = 0

\* C23: the steps entry point returns the steps of the synthetic Scenario
\* (the one of line 0), one Step per step line of the text outside a
\* doc-string, in the order of the text.  While the text is read, a step
\* line adds one step at the end and no other line adds or removes a step;
\* when the text ends, the second reading of the text gives the steps of the
\* first reading, each once, the last one with the table that was open; in
\* the list returned every step stands on a step line of the text, and its
\* doc-string and its table start after it and before the next step.
C23_StepsOncePerLine ==
  /\ [][ ( /\ variant = "steps" /\ line' = line + 1
           /\ Synthetic /\ Synthetic' /\ status' # "error" )
         => IF state # "MULTILINE_TEXT" /\ cur' \in StepLines
            THEN /\ StepLinesOf(scenario'.steps) =
                      Append(StepLinesOf(scenario.steps), line')
                 /\ scenario'.steps[Len(scenario'.steps)].name =
                      TextAfterKeyword(cur')
            ELSE StepLinesOf(scenario'.steps) = StepLinesOf(scenario.steps)
       ]_vars
  /\ [][ (variant = "steps" /\ status = "parsing" /\ status' = "done")
         => scenario'.steps =
              IF table.type = None THEN scenario.steps
              ELSE [scenario.steps EXCEPT ![Len(scenario.steps)].table = table]
       ]_vars
  /\ []( (variant = "steps" /\ status = "done" /\ Synthetic)
         => \A i \in 1..Len(scenario.steps) :
              LET step == scenario.steps[i]
                  next == IF i < Len(scenario.steps)
                          THEN scenario.steps[i + 1].line
                          ELSE Len(text) + 1
              IN /\ step.line \in 1..Len(text)
                 /\ text[step.line] \in StepLines
                 /\ step.name = TextAfterKeyword(text[step.line])
                 /\ step.line < next
                 /\ step.table.type # None
                      => step.line < step.table.line /\ step.table.line < next
                 /\ step.text.type # None
                      => step.line < step.text.line /\ step.text.line < next )

C23_Witness ==
  /\ variant = "steps" /\ status = "done" /\ Synthetic
  /\ text = <<"Given g", "| n |", "When a">>
  /\ Len(scenario.steps) = 2
  /\ scenario.steps[1].table.type = "Table"
  /\ scenario.steps[2].table.type = None

\* The parser fields without the line numbers: the line counter and the line
\* recorded in every node, tag, table, text and error are 0.
UnlinedTags(ts) == [i \in 1..Len(ts) |-> [ts[i] EXCEPT !.line = 0]]

UnlinedNumbers(ns) == [i \in 1..Len(ns) |-> 0]

UnlinedStep(step) ==
  [step EXCEPT !.line = 0, !.text.line = 0, !.table.line = 0]

UnlinedBackground(b) ==
  [b EXCEPT !.line = 0, !.description = UnlinedNumbers(@),
            !.steps = [i \in 1..Len(b.steps) |-> UnlinedStep(b.steps[i])]]

UnlinedContainer(c) ==
  [c EXCEPT !.line = 0, !.tags = UnlinedTags(@),
            !.description = UnlinedNumbers(@),
            !.background = UnlinedBackground(@),
            !.scenarios = UnlinedNumbers(@), !.rules = UnlinedNumbers(@)]

UnlinedScenario(s) ==
  [s EXCEPT !.line = 0, !.tags = UnlinedTags(@),
            !.description = UnlinedNumbers(@),
            !.steps = [i \in 1..Len(s.steps) |-> UnlinedStep(s.steps[i])],
            !.examples =
               [i \in 1..Len(s.examples) |->
                  [s.examples[i] EXCEPT !.line = 0, !.tags = UnlinedTags(@),
                                         !.table.line = 0]]]

Unlined(p) ==
  [p EXCEPT !.line = 0, !.multiline_start = 0, !.error.line = 0,
            !.tags = UnlinedTags(@), !.table.line = 0,
            !.feature = UnlinedContainer(@), !.rule = UnlinedContainer(@),
            !.scenario = UnlinedScenario(@)]

\* C24: a blank line that arrives outside a doc-string changes nothing but
\* the line counter: no handler is called.  What a line, or the end of the
\* text, makes of the parser fields does not depend on the line numbers
\* either, these aside: the fields after it, without the line numbers, are
\* those it makes of the fields without the line numbers.  So a text and the
\* text with a blank line more outside a doc-string give the same AST, the
\* line numbers recorded in the nodes aside.
C24_BlankLineSkipped ==
  /\ [][ (line' = line + 1 /\ cur' \in BlankLines
          /\ state # "MULTILINE_TEXT")
         => /\ state' = state /\ status' = status /\ error' = error
            /\ tags' = tags /\ table' = table /\ examples' = examples
            /\ lines' = lines /\ last_step_type' = last_step_type
            /\ feature' = feature /\ rule' = rule /\ scenario' = scenario
            /\ statement' = statement /\ language' = language
            /\ scenario_container' = scenario_container
            /\ multiline_start' = multiline_start
            /\ multiline_terminator' = multiline_terminator
            /\ multiline_leading' = multiline_leading ]_vars
  /\ [](Reading
        => /\ \A l \in Lines \cup DocLines :
                Unlined(ParseLine(P, l)) = Unlined(ParseLine(Unlined(P), l))
           /\ Unlined(EndOfCall(P)) = Unlined(EndOfCall(Unlined(P))))

C24_Witness ==
  /\ variant = "steps" /\ text = <<"Given g", "", "| n |">>
  /\ status = "parsing" /\ state = "TABLE" /\ table.line = 3
  /\ Len(scenario.steps) = 1 /\ scenario.steps[1].line = 1

\* C25: the step of the line "Then t::" keeps its name t:: when the option
\* STRIP_STEPS_WITH_TRAILING_COLON is off or the step has neither a
\* doc-string nor a table, and has the name t: (one colon less, never two)
\* when the option is on and a doc-string, a table or both are attached.
C25_AtMostOneColon ==
  \A step \in AllSteps :
    step.keyword = "Then"
    => step.name =
         IF /\ STRIP_STEPS_WITH_TRAILING_COLON
            /\ (step.text.type # None \/ step.table.type # None)
         THEN "t:" ELSE "t::"

\* The names the tag parser is to give for a tag line: the words before the
\* first word that starts with #, without their @.
ExpectedTagNames(l) ==
  CASE l = "@b @a" -> <<"b", "a">>
    [] l = "@a @b  @c  # comment" -> <<"a", "b", "c">>
    [] l = "@a @a # @b c" -> <<"a", "a">>
    [] OTHER -> <<>>

\* The last n elements of a sequence.
LastOf(seq, n) == SubSeq(seq, Len(seq) - n + 1, Len(seq))

\* C26: a tag line that arrives outside a doc-string gives the pending tags,
\* at their end, one tag for each word before the first word that starts
\* with #, in order, duplicates kept, each with the word without its @ as
\* name and with the line; the words after the # are not looked at.  A tag
\* line with a word that starts with neither @ nor # before any # fails the
\* parse with a ParserError.
C26_TagParser ==
  ( /\ cur \in TagLines \cup TagCommentLines \cup BadTagLines
    /\ state_name # "MULTILINE_TEXT" )
  => IF cur \in BadTagLines
     THEN /\ status = "error" /\ error.exc = "ParserError"
          /\ error.message = "tag" /\ error.line = line
     ELSE /\ status # "error"
          /\ Len(tags) >= Len(ExpectedTagNames(cur))
          /\ LastOf(tags, Len(ExpectedTagNames(cur))) =
               [i \in 1..Len(ExpectedTagNames(cur)) |->
                  [name |-> ExpectedTagNames(cur)[i], line |-> line]]

C26_Witness ==
  /\ cur = "@a @b  @c  # comment" /\ status = "parsing"
  /\ tags = <<[name |-> "a", line |-> 1], [name |-> "b", line |-> 1],
              [name |-> "c", line |-> 1]>>

\* A sequence of numbers is strictly increasing.
Increasing(ns) == \A i \in 1..Len(ns) : \A j \in 1..Len(ns) : i < j => ns[i] < ns[j]

\* C27: in a whole-file parse the rules of the Feature are the Rules built,
\* each once, in the order of the text.  Once a Rule is built the current
\* Rule is the last one of the Feature and it is the scenario container: the
\* scenarios and the Background of the Feature itself were all built before
\* the first Rule, and a Scenario or ScenarioOutline built after the current
\* Rule, or a Background built right after it, is held by that Rule.
C27_RulesOwnWhatFollows ==
  (variant = "feature" /\ rule.type # None)
  => /\ feature.type = "Feature"
     /\ Increasing(feature.rules)
     /\ feature.rules # <<>>
     /\ rule.line = feature.rules[Len(feature.rules)]
     /\ scenario_container = "Rule"
     /\ \A i \in 1..Len(feature.scenarios) :
          feature.scenarios[i] < feature.rules[1]
     /\ feature.background.type # None
          => feature.background.line < feature.rules[1]
     /\ Increasing(rule.scenarios)
     /\ \A i \in 1..Len(rule.scenarios) : rule.line < rule.scenarios[i]
     /\ (scenario.type # None /\ rule.line < scenario.line)
          => rule.scenarios # <<>>
             /\ rule.scenarios[Len(rule.scenarios)] = scenario.line
     /\ ( /\ cur \in BackgroundLines /\ language = "en"
          /\ state_name = "RULE" /\ status # "error" )
          => rule.background.line = line

C27_Witness ==
  /\ variant = "feature" /\ status = "done"
  /\ Len(feature.rules) = 2 /\ rule.line = feature.rules[2]
  /\ feature.scenarios = <<>>
  /\ scenario.type = "Scenario" /\ rule.scenarios = <<scenario.line>>

\* The parser fields in state TABLE after the open table is bound to its one
\* owner (the open Examples, or else the last step of the statement), the
\* open table and the open Examples are cleared and the state is STEPS.
TableBound ==
  LET steps == StatementSteps(P)
      q == IF examples # None
           THEN [P EXCEPT !.scenario.examples[Len(scenario.examples)].table =
                            table]
           ELSE SetStatementSteps(
                  P, [steps EXCEPT ![Len(steps)] =
                        _normalize_step_name(P, [@ EXCEPT !.table = table])])
  IN [q EXCEPT !.examples = None, !.table = NoTable, !.state = "STEPS"]

\* C28: in state TABLE there is an owner for the table: open Examples (whose
\* table may not have a row yet), or else an open table and a last step of
\* the statement.  A line that is no row (and is
\* dispatched: neither blank nor a comment) leaves the parser as the same
\* line leaves it when it arrives in state STEPS with the table bound to that
\* owner and the open table and the open Examples cleared: the same nodes,
\* the same state, the same error if the line is rejected.  (The indent
\* recorded for a doc-string opener is left aside here.)
C28_NonRowClosesTable ==
  /\ []( (state = "TABLE" /\ status = "parsing")
         => IF examples # None
            THEN statement = "ScenarioOutline" /\ scenario.examples # <<>>
            ELSE /\ table.type = "Table"
                 /\ HasSteps(P) /\ StatementSteps(P) # <<>> )
  /\ [][ ( /\ state = "TABLE" /\ status = "parsing" /\ line' = line + 1
           /\ cur' \in Dispatched \ RowLines )
         => P' = [ParseLine(TableBound, cur')
                    EXCEPT !.ret = TRUE, !.state_name = "TABLE",
                           !.multiline_leading = multiline_leading']
       ]_vars

C28_Witness ==
  /\ state_name = "TABLE" /\ cur = "When a" /\ state = "STEPS"
  /\ status = "parsing" /\ table.type = None
  /\ statement = "Scenario" /\ Len(scenario.steps) = 2
  /\ scenario.steps[1].table.type = "Table"
  /\ scenario.steps[1].table.line = line - 1
  /\ scenario.steps[2].line = line

\* C29: when a doc-string opener has opened a doc-string, from state STEPS or
\* from state TABLE, the indent recorded is the number of characters before
\* the fence in the line as it stands in the text.
C29_IndentOfRawLine ==
  ( /\ cur \in FenceLines /\ state_name \in {"STEPS", "TABLE"}
    /\ state = "MULTILINE_TEXT" /\ status = "parsing" )
  => multiline_leading = Indent(cur)

\* C30: a line that arrives while the block (Background, Scenario or
\* ScenarioOutline) has no step yet leaves the parser as it would with
\* last_step_type unknown: the outcome does not depend on the steps of an
\* earlier block.  A first step And or But has the type of the last step of
\* the applicable Background, and the parse fails with a ParserError when
\* there is none; a first step * is a given step; any other first step has
\* the type of its keyword.
C30_NoCarryOver ==
  [][ ( /\ status = "parsing" /\ line' = line + 1
        /\ state # "MULTILINE_TEXT" /\ cur' \in Dispatched
        /\ HasSteps(P) /\ StatementSteps(P) = <<>> )
      => /\ P' = [ParseLine([P EXCEPT !.last_step_type = None], cur')
                    EXCEPT !.ret = TRUE]
         /\ ( /\ cur' \in AndButLines /\ language = "en"
              /\ LastStepType(ApplicableBackgroundSteps) = None )
            => /\ status' = "error" /\ error'.exc = "ParserError"
               /\ StatementSteps(P)' = <<>>
         /\ (status' = "parsing" /\ Len(StatementSteps(P)') = 1)
            => /\ StatementSteps(P)'[1].step_type =
                    CASE cur' \in AndButLines ->
                           LastStepType(ApplicableBackgroundSteps)
                      [] cur' = "* s" -> "given"
                      [] cur' = "Given g" -> "given"
                      [] cur' = "When a" -> "when"
                      [] OTHER -> "then"
               /\ last_step_type' = StatementSteps(P)'[1].step_type
    ]_vars

C30_Witness ==
  /\ variant = "steps" /\ text = <<"When a", "Scenario: S", "And b">>
  /\ scenario.type = "Scenario" /\ scenario.line = 2 /\ scenario.steps = <<>>
  /\ status = "error" /\ error.exc = "ParserError" /\ error.line = 3

\* The last step of the current statement.
LastStep == StatementSteps(P)[Len(StatementSteps(P))]

\* C31 as stated: when the text has ended in state MULTILINE_TEXT, the step
\* the open doc-string follows has no text.
C31_NoTextAttached ==
  (status = "done" /\ state = "MULTILINE_TEXT") => LastStep.text.type = None

\* C31: in state MULTILINE_TEXT no table is open, the statement has a last
\* step, and the text of that step, if it has one, is an earlier doc-string
\* that was closed before the open one started.  When the text ends in this
\* state the call ends without an error and leaves the nodes as they are:
\* the lines captured since the opener are attached to nothing, the step
\* keeps the text it had before the opener (none, or the earlier doc-string).
C31_UnterminatedDocString ==
  /\ []( (state = "MULTILINE_TEXT" /\ status \in {"parsing", "done"})
         => /\ table.type = None /\ examples = None
            /\ HasSteps(P) /\ StatementSteps(P) # <<>>
            /\ LastStep.text.line < multiline_start
            /\ LastStep.text.type = None => LastStep.text = NoText )
  /\ [][ ( /\ status = "parsing" /\ state = "MULTILINE_TEXT"
           /\ status' # "parsing" /\ line' = line )
         => /\ status' = "done" /\ error' = NoError
            /\ state' = "MULTILINE_TEXT"
            /\ feature' = feature /\ rule' = rule /\ scenario' = scenario
            /\ statement' = statement
       ]_vars

C31_Witness ==
  /\ status = "done" /\ state = "MULTILINE_TEXT" /\ variant = "feature"
  /\ lines = <<"hello", " world">>
  /\ statement = "Background" /\ Len(feature.background.steps) = 1
  /\ feature.background.steps[1].text = NoText

\* The parser fields q are those a parse starts from on this Parser: the
\* language is kept, the state is the initial state of the entry point, and
\* the line counter, the pending tags, the open table, the open Examples, the
\* lines of the doc-string, the feature, the rule and the container are
\* cleared.
ResetIn(q) ==
  /\ q.language = language
  /\ q.status = "parsing" /\ q.error = NoError
  /\ q.state = InitialState(variant) /\ q.line = 0
  /\ q.last_step_type = None /\ q.tags = <<>>
  /\ q.table = NoTable /\ q.examples = None /\ q.lines = <<>>
  /\ q.multiline_start = 0 /\ q.multiline_terminator = None
  /\ q.multiline_leading = 0
  /\ q.feature = NoContainer /\ q.rule = NoContainer
  /\ q.scenario_container = None
  /\ IF variant = "steps"
     THEN q.statement = "Scenario" /\ q.scenario.line = 0
          /\ q.scenario.steps = <<>>
     ELSE q.statement = None /\ q.scenario = NoScenario

\* C32: on a Parser whose call has returned or raised, reset and the start of
\* the next parse give the initial fields with the language the Parser has.
C32_ResetKeepsLanguage ==
  status \in {"done", "error"} => ResetIn(Restart(P))

\* C32 for a Parser whose language has keywords: when the entry point is
\* called again, the language adopted from a language comment is the
\* language of the next parse and every other field is reset.
C32_KnownLanguageKept ==
  [][ (status \in {"done", "error"} /\ language \in DOMAIN languages)
      => ResetIn(P') ]_vars

\* C33: tags are pending only in state INITIAL or TAGGABLE_STATEMENT, so the
\* test of the tags in the Background builder, which runs in the states
\* FEATURE and RULE, never raises its error.  When the text ends with tags
\* pending the call ends without an error and the tags are attached to no
\* node.
C33_TagsPendingOnlyBeforeStatement ==
  /\ [](tags # <<>> => state \in {"INITIAL", "TAGGABLE_STATEMENT"})
  /\ [](error.message # "Background supports no tags")
  /\ [][ (status = "parsing" /\ tags # <<>> /\ line' = line
          /\ status' # "parsing")
         => /\ status' = "done" /\ error' = NoError
            /\ feature' = feature /\ rule' = rule /\ scenario' = scenario ]_vars

C33_Witness ==
  /\ status = "done" /\ state = "TAGGABLE_STATEMENT"
  /\ Len(tags) = 2 /\ tags[1].line = line
  /\ scenario.type = "Scenario" /\ scenario.tags = <<>>
  /\ feature.type = "Feature" /\ feature.tags = <<>>

\* The positions of the definitions of a list that match a name.
MatchingIn(step_definitions, name) ==
  {i \in 1..Len(step_definitions) : Matches(step_definitions[i], name)}

\* The first definition of a list that matches a name (there is one).
FirstIn(step_definitions, name) ==
  step_definitions[CHOOSE i \in MatchingIn(step_definitions, name) :
                     \A j \in MatchingIn(step_definitions, name) : i <= j]

\* What a lookup of a step is to find: the first definition of its own step
\* type that matches its name, else the first one of type step, else none.
Expected(r, step) ==
  IF MatchingIn(r.steps[step.step_type], step.name) # {}
  THEN FirstIn(r.steps[step.step_type], step.name)
  ELSE IF MatchingIn(r.steps["step"], step.name) # {}
  THEN FirstIn(r.steps["step"], step.name)
  ELSE NoMatcher

\* C34: a call of add_step_definition appends one matcher, of a text that
\* compiles, at the end of the list of its own step type and raises nothing,
\* or it leaves the four lists as they are.  So every list holds definitions
\* of its own type only, and none whose text an earlier definition of the
\* same list matches.  find_step_definition and find_match leave the
\* registry as it is and give the first definition of the step's own type
\* that matches its name, else the first one of the type step, else None.
C34_RegistryLists ==
  /\ [][ call'.name = "add_step_definition"
         => \/ registry'.steps = registry.steps
            \/ /\ call'.exc = None
               /\ registry'.bad_step_definitions =
                    registry.bad_step_definitions
               /\ \E t \in StepTypeNames :
                    /\ Len(registry'.steps[t]) = Len(registry.steps[t]) + 1
                    /\ registry'.steps =
                         [registry.steps EXCEPT ![t] =
                            Append(@, registry'.steps[t]
                                        [Len(registry'.steps[t])])]
                    /\ registry'.steps[t][Len(registry'.steps[t])].step_type
                         = t ]_vars
  /\ [](\A t \in StepTypeNames :
          \A j \in 1..Len(registry.steps[t]) :
            /\ registry.steps[t][j].step_type = t
            /\ Compiles(registry.steps[t][j])
            /\ \A i \in 1..(j - 1) :
                 ~Matches(registry.steps[t][i], registry.steps[t][j].pattern))
  /\ [][ call'.name \in {"find_step_definition", "find_match"}
         => /\ registry' = registry
            /\ call'.exc = None
            /\ call'.name = "find_step_definition"
                 => call'.definition = Expected(registry, call'.step)
            /\ call'.name = "find_match"
                 => call'.match =
                      [matched |-> Expected(registry, call'.step) # NoMatcher,
                       step_matcher |-> Expected(registry, call'.step)]
       ]_vars

C34_Witness ==
  /\ Len(registry.steps["given"]) = 1
  /\ registry.steps["given"][1].pattern = "a step"
  /\ Len(registry.steps["step"]) = 1
  /\ registry.steps["step"][1].pattern = "a {x}"
  /\ call.name = "find_step_definition"
  /\ call.step = [step_type |-> "given", name |-> "a step"]
  /\ call.definition = registry.steps["given"][1]

====
